---- MODULE Spec2Model ----
(***************************************************************************)
(* A model of the event model, the layered compositor (StackView) and the  *)
(* two terminal backends (ncurses: polling, termion: streamed) of Cursive. *)
(*                                                                         *)
(* Each subsystem has its own group of variables and its own               *)
(* specification; a specification leaves the other groups untouched.       *)
(***************************************************************************)
EXTENDS Integers, Sequences, FiniteSets, TLC

VARIABLES
    \* ---- event.rs: one call of an Event method ------------------------
    self_ev,        \* the Event the method is called on (`self`)
    top_left,       \* argument `top_left: Vec2`
    size_opt,       \* argument `size: Option<Vec2>`
    ev_pc,          \* "call" before the method ran, then the method's name
    ev_ret,         \* what the method returned / left in `self`
    \* ---- views/stack_view.rs: StackView --------------------------------
    layers,         \* StackView::layers, bottom first
    last_size,      \* StackView::last_size
    next_view,      \* identity given to the next view that is added
    calls,          \* calls the last operation made on the layers' views
    ret,            \* what the last operation returned
    \* ---- backend/curses/n.rs: Concrete ---------------------------------
    event_queue,    \* Concrete::event_queue
    n_timeout,      \* the argument of the last ncurses::timeout call
    n_in,           \* what the driver delivered to the last poll_event
    n_ret,          \* what the last poll_event returned
    \* ---- backend/termion.rs: Concrete ----------------------------------
    timeout,        \* Concrete::timeout: Option<u32>
    input,          \* the channel fed by the worker thread
    resize,         \* the channel fed by the WINCH subscription
    sent,           \* number of events the worker thread pushed so far
    t_ret,          \* what the last set_refresh_rate / poll_event returned
    current_style,  \* Concrete::current_style
    terminal,       \* the colours the terminal currently prints with
    frames,         \* the with_color / with_any_color calls in progress
    col_ret,        \* the last with_* call that returned, with its frame
    \* ---- one call of a function that keeps no state --------------------
    call_args,      \* the arguments of the call
    call_pc,        \* "call" before the function ran, then its name
    call_ret        \* what the function returned

ev_vars == <<self_ev, top_left, size_opt, ev_pc, ev_ret>>
sv_vars == <<layers, last_size, next_view, calls, ret>>
nc_vars == <<event_queue, n_timeout, n_in, n_ret>>
tp_vars == <<timeout, input, resize, sent, t_ret>>
tc_vars == <<current_style, terminal, frames, col_ret>>
call_vars == <<call_args, call_pc, call_ret>>
vars == <<ev_vars, sv_vars, nc_vars, tp_vars, tc_vars, call_vars>>

\* What the operations of one group leave alone.
not_ev == <<sv_vars, nc_vars, tp_vars, tc_vars, call_vars>>
not_sv == <<ev_vars, nc_vars, tp_vars, tc_vars, call_vars>>
not_nc == <<ev_vars, sv_vars, tp_vars, tc_vars, call_vars>>
not_tp == <<ev_vars, sv_vars, nc_vars, tc_vars, call_vars>>
not_tc == <<ev_vars, sv_vars, nc_vars, tp_vars, call_vars>>
not_call == <<ev_vars, sv_vars, nc_vars, tp_vars, tc_vars>>

----------------------------------------------------------------------------
(* Bounds *)

\* Mouse positions and window corners range over 0..MaxCoord on both axes.
MaxCoord == 2

----------------------------------------------------------------------------
(* Option<T> *)

None == [some |-> FALSE]
Some(v) == [some |-> TRUE, val |-> v]

----------------------------------------------------------------------------
(* vec.rs: Vec2 = XY<usize> *)

Vec2(a, b) == [x |-> a, y |-> b]
Zero == Vec2(0, 0)

Min2(a, b) == IF a <= b THEN a ELSE b
Max2(a, b) == IF a >= b THEN a ELSE b

\* usize subtraction.  A result below zero is an arithmetic overflow: the
\* value -k stands for the wrapped value 2^64 - k of a release build (a
\* debug build panics instead, see Underflows).
USub(a, b) == a - b
Underflows(a, b) == a.x < b.x \/ a.y < b.y

VAdd(a, b) == Vec2(a.x + b.x, a.y + b.y)
VSub(a, b) == Vec2(USub(a.x, b.x), USub(a.y, b.y))
VMin(a, b) == Vec2(Min2(a.x, b.x), Min2(a.y, b.y))
VMax(a, b) == Vec2(Max2(a.x, b.x), Max2(a.y, b.y))
or_min(a, b) == VMin(a, b)

\* self.fits_in(other): self.x <= other.x && self.y <= other.y
fits_in(a, b) == a.x <= b.x /\ a.y <= b.y

\* PartialOrd for Vec2: Less only when smaller on both axes.
partial_cmp(a, b) ==
    IF a = b THEN "Equal"
    ELSE IF a.x < b.x /\ a.y < b.y THEN "Less"
    ELSE IF a.x > b.x /\ a.y > b.y THEN "Greater"
    ELSE "None"
VLt(a, b) == partial_cmp(a, b) = "Less"

Coords == 0..MaxCoord
Positions == {Vec2(a, b) : a \in Coords, b \in Coords}

----------------------------------------------------------------------------
(* event.rs: Event *)

MouseTags == {"Mouse", "CtrlMouse", "AltMouse", "ShiftMouse",
              "CtrlAltMouse", "CtrlShiftMouse", "AltShiftMouse"}

Press(b) == [kind |-> "Press", button |-> b]
Release(b) == [kind |-> "Release", button |-> b]
WheelUp == [kind |-> "WheelUp"]
WheelDown == [kind |-> "WheelDown"]
MouseButtons == {"Left", "Right", "Middle"}

MouseEv(tag, pos, event) == [tag |-> tag, pos |-> pos, event |-> event]
KeyEv(tag, key) == [tag |-> tag, key |-> key]
CharEv(tag, c) == [tag |-> tag, c |-> c]
Unknown(bytes) == [tag |-> "Unknown", bytes |-> bytes]
WindowResize == [tag |-> "WindowResize"]
Refresh == [tag |-> "Refresh"]
Exit == [tag |-> "Exit"]

IsMouse(e) == e.tag \in MouseTags

\* The events without a position, one or two of each variant.
NonMouseEvents ==
    {WindowResize, Refresh, Exit, Unknown(<<>>), Unknown(<<27, 91>>)}
    \cup {CharEv(t, c) : t \in {"Char", "CtrlChar", "AltChar"}, c \in {97}}
    \cup {KeyEv(t, k) : t \in {"Key", "Shift", "Alt", "AltShift", "Ctrl",
                               "CtrlShift", "CtrlAlt"}, k \in {"Enter"}}

SomeMouseActions == {Press("Left"), Release("Right"), WheelDown}

MouseEvents ==
    {MouseEv(t, p, m) : t \in MouseTags, p \in Positions,
                        m \in SomeMouseActions}

\* Event::mouse_position
mouse_position(e) ==
    IF e.tag \in {"Mouse", "CtrlMouse", "ShiftMouse", "AltMouse",
                  "CtrlShiftMouse", "CtrlAltMouse"}
    THEN Some(e.pos)
    ELSE None

\* Event::relativize: the value of `self` after the call.
relativize(e, tl) ==
    IF e.tag \in {"Mouse", "CtrlMouse", "ShiftMouse", "AltMouse",
                  "CtrlShiftMouse", "CtrlAltMouse"}
    THEN [e EXCEPT !.pos = VSub(e.pos, tl)]
    ELSE e

\* Event::relativize panics in a build with overflow checks.
relativize_overflows(e, tl) ==
    /\ e.tag \in {"Mouse", "CtrlMouse", "ShiftMouse", "AltMouse",
                  "CtrlShiftMouse", "CtrlAltMouse"}
    /\ Underflows(e.pos, tl)

\* Mutant: a non-mouse event is rejected instead of passed through.
make_relative_rejecting(e, tl, size) ==
    LET mp == mouse_position(e) IN
    IF ~mp.some THEN None
    ELSE IF ~fits_in(tl, mp.val) THEN None
    ELSE IF (IF size.some THEN ~VLt(mp.val, VAdd(tl, size.val)) ELSE FALSE)
    THEN None
    ELSE Some(relativize(e, tl))

\* Event::make_relative
make_relative(e, tl, size) ==
    LET mp == mouse_position(e) IN
    IF ~mp.some THEN Some(e)
    ELSE IF ~fits_in(tl, mp.val) THEN None
    ELSE IF (IF size.some THEN ~VLt(mp.val, VAdd(tl, size.val)) ELSE FALSE)
    THEN None
    ELSE Some(relativize(e, tl))

----------------------------------------------------------------------------
(* Initial values of the groups *)

call_idle ==
    /\ call_args = <<>>
    /\ call_pc = "idle"
    /\ call_ret = None

ev_idle ==
    /\ self_ev = Refresh
    /\ top_left = Zero
    /\ size_opt = None
    /\ ev_pc = "idle"
    /\ ev_ret = None

----------------------------------------------------------------------------
(* event.rs under test: one method call on drawn arguments *)

InitEventArgs ==
    /\ self_ev \in MouseEvents \cup NonMouseEvents
    /\ top_left \in Positions
    /\ size_opt \in {None} \cup {Some(s) : s \in Positions}
    /\ ev_pc = "call"
    /\ ev_ret = None

CallMousePosition ==
    /\ ev_pc = "call"
    /\ ev_pc' = "mouse_position"
    /\ ev_ret' = mouse_position(self_ev)
    /\ UNCHANGED <<self_ev, top_left, size_opt, not_ev>>

CallMakeRelative ==
    /\ ev_pc = "call"
    /\ ev_pc' = "make_relative"
    /\ ev_ret' = make_relative(self_ev, top_left, size_opt)
    /\ UNCHANGED <<self_ev, top_left, size_opt, not_ev>>

\* relativize(&mut self, top_left): ev_ret.self is `self` after the call.  The
\* subtraction overflows when the position is left of or above top_left: a
\* build with overflow checks panics, one without wraps.
CallRelativize ==
    /\ ev_pc = "call"
    /\ ev_pc' = "relativize"
    /\ \E checked \in BOOLEAN :
         ev_ret' = IF checked /\ relativize_overflows(self_ev, top_left)
                   THEN [panic |-> TRUE]
                   ELSE [panic |-> FALSE,
                         self |-> relativize(self_ev, top_left)]
    /\ UNCHANGED <<self_ev, top_left, size_opt, not_ev>>

----------------------------------------------------------------------------
(* view/position.rs: Offset and Position *)

Center == [o |-> "Center"]
Absolute(n) == [o |-> "Absolute", n |-> n]
Parent(n) == [o |-> "Parent", n |-> n]
Position(px, py) == [x |-> px, y |-> py]

\* Offset::compute_offset
offset_compute_offset(off, size, available, parent) ==
    IF size > available THEN 0
    ELSE CASE off.o = "Center" -> (available - size) \div 2
           [] off.o = "Absolute" -> Min2(off.n, available - size)
           [] off.o = "Parent" ->
                \* (parent as isize + offset) as usize: below zero it wraps
                \* to a value above every available - size
                IF parent + off.n < 0 THEN available - size
                ELSE Min2(parent + off.n, available - size)

\* Position::compute_offset
position_compute_offset(pos, size, available, parent) ==
    Vec2(offset_compute_offset(pos.x, size.x, available.x, parent.x),
         offset_compute_offset(pos.y, size.y, available.y, parent.y))

----------------------------------------------------------------------------
(* views/stack_view.rs: Placement, Child, StackView *)

Floating(position) == [kind |-> "Floating", position |-> position]
Fullscreen == [kind |-> "Fullscreen"]

\* Placement::compute_offset
compute_offset(placement, size, available, parent) ==
    IF placement.kind = "Floating"
    THEN position_compute_offset(placement.position, size, available, parent)
    ELSE Zero

\* The boxed view of a layer.  `id` tells the views apart, `want` is the size
\* the innermost view asks for; a floating layer's view is wrapped in a
\* ShadowView with the two paddings.
LayerView(id, want) ==
    [id |-> id, shadow |-> FALSE, want |-> want]
ShadowedView(id, want, top, left) ==
    [id |-> id, shadow |-> TRUE, want |-> want,
     top_padding |-> top, left_padding |-> left]

\* Mutant: the padding is (2,2) whatever the two flags say.
padding_fixed(v) == Vec2(2, 2)

\* ShadowView::padding
padding(v) ==
    Vec2(1 + (IF v.left_padding THEN 1 ELSE 0),
         1 + (IF v.top_padding THEN 1 ELSE 0))

\* required_size of the innermost view, which answers with its own size
\* whatever it is offered.
inner_required_size(v, req) == v.want

\* ShadowView::wrap_required_size
wrap_required_size(v, req) ==
    LET offset == or_min(padding(v), req)
    IN  VAdd(inner_required_size(v, VSub(req, offset)), offset)

\* layer.view.required_size(size)
view_required_size(v, req) ==
    IF v.shadow THEN wrap_required_size(v, req)
    ELSE inner_required_size(v, req)

\* A Child as the three add_* methods build it.  laid_out and focus_calls are
\* history: whether StackView::layout ran since the layer was added, and how
\* often layout called take_focus(Direction::none()) on its view.
NewChild(view, placement) ==
    [view |-> view, size |-> Zero, position |-> Zero,
     placement |-> placement, virgin |-> TRUE,
     laid_out |-> FALSE, focus_calls |-> 0]

\* StackView::add_fullscreen_layer
add_fullscreen_layer(ls, id, want) ==
    Append(ls, NewChild(LayerView(id, want), Fullscreen))

\* StackView::add_layer_at
add_layer_at(ls, position, id, want) ==
    Append(ls, NewChild(ShadowedView(id, want,
                                     position.y = Center,
                                     position.x = Center),
                        Floating(position)))

\* StackView::add_layer
add_layer(ls, id, want) ==
    add_layer_at(ls, Position(Center, Center), id, want)

\* Mutant: the bottom layer is removed instead of the top one.
pop_layer_bottom(ls) ==
    IF ls = <<>> THEN ls ELSE Tail(ls)

\* StackView::pop_layer: Vec::pop does nothing on an empty vector.
pop_layer(ls) ==
    IF ls = <<>> THEN ls ELSE SubSeq(ls, 1, Len(ls) - 1)

ViewCall(id, method, arg) == [view |-> id, method |-> method, arg |-> arg]

\* Mutant: the event is routed to the bottom layer.
on_event_layer_first(ls) ==
    IF ls = <<>> THEN None ELSE Some(ls[1])

\* StackView::on_event: self.layers.last_mut()
on_event_layer(ls) ==
    IF ls = <<>> THEN None ELSE Some(ls[Len(ls)])

\* Mutant: without a layer the event is handed on all the same.
on_event_forward_without_layer(ls, event) ==
    IF ls = <<>> THEN Some(ViewCall(0, "on_event", event))
    ELSE LET v == ls[Len(ls)]
             rel == make_relative(event, v.position, Some(v.size))
         IN  IF rel.some THEN Some(ViewCall(v.view.id, "on_event", rel.val))
             ELSE None

\* StackView::on_event: the event handed to the active layer's view, if any.
on_event_forward(ls, event) ==
    LET v == on_event_layer(ls) IN
    IF ~v.some THEN None
    ELSE LET rel == make_relative(event, v.val.position, Some(v.val.size)) IN
         IF rel.some THEN Some(ViewCall(v.val.view.id, "on_event", rel.val))
         ELSE None

\* Mutant: the layer stays virgin after its first layout.
layout_layer_stays_virgin(layer, size, previous) ==
    LET sz == VMin(size, view_required_size(layer.view, size))
        offset == compute_offset(layer.placement, sz, size, previous)
    IN  [layer EXCEPT !.size = sz, !.position = offset,
                      !.laid_out = TRUE,
                      !.focus_calls = IF layer.virgin THEN @ + 1 ELSE @]

\* Mutant: the layer gets the size its view asks for, whatever `size` is.
layout_layer_unclamped(layer, size, previous) ==
    LET sz == view_required_size(layer.view, size)
        offset == compute_offset(layer.placement, sz, size, previous)
    IN  [layer EXCEPT !.size = sz, !.position = offset,
                      !.virgin = FALSE, !.laid_out = TRUE,
                      !.focus_calls = IF layer.virgin THEN @ + 1 ELSE @]

\* StackView::layout: the body of the loop, for one layer.
layout_layer(layer, size, previous) ==
    LET sz == VMin(size, view_required_size(layer.view, size))
        offset == compute_offset(layer.placement, sz, size, previous)
    IN  [layer EXCEPT !.size = sz, !.position = offset,
                      !.virgin = FALSE, !.laid_out = TRUE,
                      !.focus_calls = IF layer.virgin THEN @ + 1 ELSE @]

\* StackView::layout: the calls the body of the loop makes on one layer's view.
layout_layer_calls(layer, size) ==
    LET sz == VMin(size, view_required_size(layer.view, size))
    IN  <<ViewCall(layer.view.id, "required_size", size),
          ViewCall(layer.view.id, "layout", sz)>>
        \o (IF layer.virgin
            THEN <<ViewCall(layer.view.id, "take_focus", "none")>>
            ELSE <<>>)

\* StackView::layout: the loop over the layers from index i, bottom to top.
RECURSIVE layout_from(_, _, _, _)
layout_from(ls, i, size, previous) ==
    IF i > Len(ls) THEN <<>>
    ELSE LET l == layout_layer(ls[i], size, previous)
         IN  <<l>> \o layout_from(ls, i + 1, size, l.position)

RECURSIVE layout_calls_from(_, _, _)
layout_calls_from(ls, i, size) ==
    IF i > Len(ls) THEN <<>>
    ELSE layout_layer_calls(ls[i], size) \o layout_calls_from(ls, i + 1, size)

\* StackView::required_size: the fold of Vec2::max over the layers' answers,
\* starting from Vec2::new(1, 1).
RECURSIVE required_size_from(_, _, _, _)
required_size_from(ls, i, size, acc) ==
    IF i > Len(ls) THEN acc
    ELSE required_size_from(ls, i + 1, size,
                            VMax(acc, view_required_size(ls[i].view, size)))

\* Mutant: the answer of the top layer alone, or (1, 1) without layers.
required_size_of_top_layer(ls, size) ==
    IF ls = <<>> THEN Vec2(1, 1)
    ELSE VMax(Vec2(1, 1), view_required_size(ls[Len(ls)].view, size))

required_size(ls, size) == required_size_from(ls, 1, size, Vec2(1, 1))

\* StackView::required_size: the calls it makes on the layers' views.
required_size_calls(ls, size) ==
    [i \in 1..Len(ls) |-> ViewCall(ls[i].view.id, "required_size", size)]

\* StackView::offset: the loop over the layers from index i, `previous`
\* being the offset computed for the layer below.
RECURSIVE offset_from(_, _, _, _)
offset_from(ls, i, last, previous) ==
    IF i > Len(ls) THEN previous
    ELSE offset_from(ls, i + 1, last,
                     compute_offset(ls[i].placement, ls[i].size, last,
                                    previous))

\* Mutant: the offset of the bottom layer.
offset_of_bottom_layer(ls, last) ==
    IF ls = <<>> THEN Zero
    ELSE compute_offset(ls[1].placement, ls[1].size, last, Zero)

\* StackView::offset
stack_offset(ls, last) == offset_from(ls, 1, last, Zero)

\* A selector is modelled by the views that answer Ok(()) to focus_view
\* with it.
\* StackView::focus_view: the loop over the layers from index i; the result
\* and the calls made on the layers' views.
RECURSIVE focus_view_from(_, _, _)
focus_view_from(ls, i, selector) ==
    IF i > Len(ls) THEN [val |-> "Err", calls |-> <<>>]
    ELSE IF ls[i].view.id \in selector
    THEN [val |-> "Ok",
          calls |-> <<ViewCall(ls[i].view.id, "focus_view", selector)>>]
    ELSE LET rest == focus_view_from(ls, i + 1, selector)
         IN  [val |-> rest.val,
              calls |-> <<ViewCall(ls[i].view.id, "focus_view", selector)>>
                        \o rest.calls]

\* Mutant: every layer is tried, also after one has answered Ok.
focus_view_trying_all(ls, selector) ==
    [val |-> IF \E i \in 1..Len(ls) : ls[i].view.id \in selector
             THEN "Ok" ELSE "Err",
     calls |-> [i \in 1..Len(ls) |->
                  ViewCall(ls[i].view.id, "focus_view", selector)]]

\* StackView::focus_view
focus_view(ls, selector) == focus_view_from(ls, 1, selector)

\* StackView::call_on_any: the calls made on the layers' views.
call_on_any(ls, selector) ==
    [i \in 1..Len(ls) |-> ViewCall(ls[i].view.id, "call_on_any", selector)]

sv_new ==
    /\ layers = <<>>
    /\ last_size = Zero
    /\ next_view = 1
    /\ calls = <<>>
    /\ ret = [op |-> "new"]

----------------------------------------------------------------------------
(* StackView: the operations *)

\* At most MaxViews views are ever added to the stack.
MaxViews == 2

\* Sizes the innermost views ask for: one that fits every surface, one too
\* wide for any.
Wants == {Vec2(1, 1), Vec2(MaxCoord + 2, 1)}
\* Surfaces handed to layout.
ScreenSizes == {Vec2(MaxCoord + 1, MaxCoord + 1), Vec2(MaxCoord, 1)}
\* Positions handed to add_layer_at.
AtPositions == {Position(Absolute(1), Parent(1))}
\* Events routed through the stack: a key, and clicks at the origin, next to
\* it and in the far corner.
StackEvents ==
    {KeyEv("Key", "Enter")}
    \cup {MouseEv(t, p, Press("Left")) :
            t \in {"Mouse", "AltShiftMouse"},
            p \in {Zero, Vec2(1, 1), Vec2(2, 1), Vec2(MaxCoord, MaxCoord)}}
\* Constraints handed to required_size: a roomy one and one with no column.
Constraints == {Vec2(MaxCoord + 1, MaxCoord + 1), Vec2(0, 1)}
Directions == {"none", "front", "back"}
\* What on_event and take_focus return when they return the view's answer.
FromView == "the view's answer"

AddLayer ==
    /\ next_view <= MaxViews
    /\ \E want \in Wants : layers' = add_layer(layers, next_view, want)
    /\ next_view' = next_view + 1
    /\ calls' = <<>>
    /\ ret' = [op |-> "add_layer"]
    /\ UNCHANGED <<last_size, not_sv>>

AddLayerAt ==
    /\ next_view <= MaxViews
    /\ \E want \in Wants, position \in AtPositions :
         layers' = add_layer_at(layers, position, next_view, want)
    /\ next_view' = next_view + 1
    /\ calls' = <<>>
    /\ ret' = [op |-> "add_layer_at"]
    /\ UNCHANGED <<last_size, not_sv>>

AddFullscreenLayer ==
    /\ next_view <= MaxViews
    /\ \E want \in Wants :
         layers' = add_fullscreen_layer(layers, next_view, want)
    /\ next_view' = next_view + 1
    /\ calls' = <<>>
    /\ ret' = [op |-> "add_fullscreen_layer"]
    /\ UNCHANGED <<last_size, not_sv>>

PopLayer ==
    /\ layers' = pop_layer(layers)
    /\ calls' = <<>>
    /\ ret' = [op |-> "pop_layer"]
    /\ UNCHANGED <<last_size, next_view, not_sv>>

\* on_event(event)
OnEvent ==
    /\ \E event \in StackEvents :
         LET fwd == on_event_forward(layers, event) IN
         /\ calls' = IF fwd.some THEN <<fwd.val>> ELSE <<>>
         /\ ret' = [op |-> "on_event", event |-> event,
                    val |-> IF fwd.some THEN FromView ELSE "Ignored"]
    /\ UNCHANGED <<layers, last_size, next_view, not_sv>>

Layout ==
    /\ \E size \in ScreenSizes :
         /\ last_size' = size
         /\ layers' = layout_from(layers, 1, size, Zero)
         /\ calls' = layout_calls_from(layers, 1, size)
         /\ ret' = [op |-> "layout", size |-> size]
    /\ UNCHANGED <<next_view, not_sv>>

\* take_focus(source)
TakeFocus ==
    /\ \E source \in Directions :
         IF layers = <<>>
         THEN /\ calls' = <<>>
              /\ ret' = [op |-> "take_focus", source |-> source,
                         val |-> "false"]
         ELSE /\ calls' = <<ViewCall(layers[Len(layers)].view.id,
                                     "take_focus", source)>>
              /\ ret' = [op |-> "take_focus", source |-> source,
                         val |-> FromView]
    /\ UNCHANGED <<layers, last_size, next_view, not_sv>>

\* required_size(size)
RequiredSize ==
    /\ \E size \in Constraints :
         /\ calls' = required_size_calls(layers, size)
         /\ ret' = [op |-> "required_size", size |-> size,
                    val |-> required_size(layers, size)]
    /\ UNCHANGED <<layers, last_size, next_view, not_sv>>

\* Selectors: the sets of views that match.
Selectors == SUBSET (1..MaxViews)

\* focus_view(selector)
FocusView ==
    /\ \E selector \in Selectors :
         LET o == focus_view(layers, selector) IN
         /\ calls' = o.calls
         /\ ret' = [op |-> "focus_view", selector |-> selector,
                    val |-> o.val]
    /\ UNCHANGED <<layers, last_size, next_view, not_sv>>

\* call_on_any(selector, callback)
CallOnAny ==
    /\ \E selector \in Selectors :
         /\ calls' = call_on_any(layers, selector)
         /\ ret' = [op |-> "call_on_any", selector |-> selector]
    /\ UNCHANGED <<layers, last_size, next_view, not_sv>>

\* offset()
Offset ==
    /\ calls' = <<>>
    /\ ret' = [op |-> "offset", val |-> stack_offset(layers, last_size)]
    /\ UNCHANGED <<layers, last_size, next_view, not_sv>>

NextStack ==
    \/ RequiredSize
    \/ Offset
    \/ FocusView
    \/ CallOnAny
    \/ AddLayer
    \/ AddLayerAt
    \/ AddFullscreenLayer
    \/ PopLayer
    \/ OnEvent
    \/ Layout
    \/ TakeFocus

----------------------------------------------------------------------------
(* event.rs: Key::from_f; a panic is the pseudo-event Panicked *)

Panicked == [tag |-> "panic!"]

FKeys == <<"F1", "F2", "F3", "F4", "F5", "F6",
           "F7", "F8", "F9", "F10", "F11", "F12">>

\* Mutant: a number above 12 gives F12 instead of a panic.
from_f_saturating(n) ==
    IF n = 0 THEN "F0"
    ELSE IF n \in 1..12 THEN FKeys[n]
    ELSE "F12"

\* Key::from_f
from_f(n) ==
    IF n = 0 THEN "F0"
    ELSE IF n \in 1..12 THEN FKeys[n]
    ELSE "panic!"

AsU8(n) == n % 256

\* Mutant: the number handed to from_f is one too high.
FnEv_one_too_high(tag, n) ==
    IF from_f(AsU8(n + 1)) = "panic!" THEN Panicked
    ELSE KeyEv(tag, from_f(AsU8(n + 1)))

\* Event::Key(Key::from_f(..)) and its Shift/Ctrl/CtrlShift/Alt siblings
FnEv(tag, n) ==
    IF from_f(AsU8(n)) = "panic!" THEN Panicked
    ELSE KeyEv(tag, from_f(AsU8(n)))

----------------------------------------------------------------------------
(* backend/curses/n.rs: the ncurses constants the translation uses *)

KEY_DOWN == 258
KEY_UP == 259
KEY_LEFT == 260
KEY_RIGHT == 261
KEY_HOME == 262
KEY_BACKSPACE == 263
KEY_F0 == 264
KEY_F1 == 265
KEY_F12 == 276
KEY_DC == 330
KEY_IC == 331
KEY_SF == 336
KEY_SR == 337
KEY_NPAGE == 338
KEY_PPAGE == 339
KEY_ENTER == 343
KEY_B2 == 350
KEY_BTAB == 353
KEY_END == 360
KEY_SDC == 383
KEY_SEND == 386
KEY_SHOME == 391
KEY_SLEFT == 393
KEY_SNEXT == 396
KEY_SPREVIOUS == 398
KEY_SRIGHT == 402
KEY_MOUSE == 409
KEY_RESIZE == 410

RECURSIVE Pow2(_)
Pow2(n) == IF n = 0 THEN 1 ELSE 2 * Pow2(n - 1)

\* NCURSES_MOUSE_MASK(b, m): five bits of state for each button
MouseMask(b, m) == m * Pow2((b - 1) * 5)
BUTTON1_RELEASED == MouseMask(1, 1)
BUTTON1_PRESSED == MouseMask(1, 2)
BUTTON1_CLICKED == MouseMask(1, 4)
BUTTON1_DOUBLE_CLICKED == MouseMask(1, 8)
BUTTON1_TRIPLE_CLICKED == MouseMask(1, 16)
BUTTON2_RELEASED == MouseMask(2, 1)
BUTTON2_PRESSED == MouseMask(2, 2)
BUTTON2_CLICKED == MouseMask(2, 4)
BUTTON2_DOUBLE_CLICKED == MouseMask(2, 8)
BUTTON2_TRIPLE_CLICKED == MouseMask(2, 16)
BUTTON3_RELEASED == MouseMask(3, 1)
BUTTON3_PRESSED == MouseMask(3, 2)
BUTTON3_CLICKED == MouseMask(3, 4)
BUTTON3_DOUBLE_CLICKED == MouseMask(3, 8)
BUTTON3_TRIPLE_CLICKED == MouseMask(3, 16)
BUTTON4_PRESSED == MouseMask(4, 2)
BUTTON5_PRESSED == MouseMask(5, 2)
BUTTON_CTRL == MouseMask(6, 1)
BUTTON_SHIFT == MouseMask(6, 2)
BUTTON_ALT == MouseMask(6, 4)

\* word & bit, for a mask of one bit and a word that is not negative
BitAnd(word, bit) == ((word \div bit) % 2) * bit

\* Mutant: the four bytes highest first.
get_bytes_highest_first(b) ==
    [i \in 1..4 |-> (b \div Pow2(8 * (4 - i))) % 256]

\* get_bytes: the four bytes of an i32, lowest first; >> is arithmetic, so
\* \div (which rounds down) and % (which is never negative) compute it.
get_bytes(b) ==
    [i \in 1..4 |-> (b \div Pow2(8 * (i - 1))) % 256]

----------------------------------------------------------------------------
(* backend/curses/n.rs: parse_mouse_button and parse_ncurses_char *)

\* The closure parse_ncurses_char hands to parse_mouse_button.
mouse_wrapper(ctrl, alt, shift, pos, event) ==
    CASE ~ctrl /\ ~alt /\ ~shift -> MouseEv("Mouse", pos, event)
      [] ctrl /\ ~alt /\ ~shift -> MouseEv("CtrlMouse", pos, event)
      [] ctrl /\ alt /\ ~shift -> MouseEv("CtrlAltMouse", pos, event)
      [] ~ctrl /\ alt /\ ~shift -> MouseEv("AltMouse", pos, event)
      [] ~ctrl /\ alt /\ shift -> MouseEv("AltShiftMouse", pos, event)
      [] ctrl /\ ~alt /\ shift -> MouseEv("CtrlShiftMouse", pos, event)
      [] ~ctrl /\ ~alt /\ shift -> MouseEv("ShiftMouse", pos, event)
      [] ctrl /\ alt /\ shift -> Panicked     \* unreachable!()

\* parse_mouse_button: the first match, the button of a button state
mouse_button(bstate) ==
    IF bstate \in {BUTTON1_RELEASED, BUTTON1_PRESSED, BUTTON1_CLICKED,
                   BUTTON1_DOUBLE_CLICKED, BUTTON1_TRIPLE_CLICKED}
    THEN Some("Left")
    ELSE IF bstate \in {BUTTON2_RELEASED, BUTTON2_PRESSED, BUTTON2_CLICKED,
                        BUTTON2_DOUBLE_CLICKED, BUTTON2_TRIPLE_CLICKED}
    THEN Some("Middle")
    ELSE IF bstate \in {BUTTON3_RELEASED, BUTTON3_PRESSED, BUTTON3_CLICKED,
                        BUTTON3_DOUBLE_CLICKED, BUTTON3_TRIPLE_CLICKED}
    THEN Some("Right")
    ELSE None

Outcome(event, queue) == [ret |-> event, queue |-> queue]

\* parse_mouse_button(bstate, wrapper), wrapper given by its captures; the
\* outcome is the returned event and the event_queue left behind.
parse_mouse_button(queue, bstate, ctrl, alt, shift, pos) ==
    LET button == mouse_button(bstate)
        wrapper(event) == mouse_wrapper(ctrl, alt, shift, pos, event)
    IN  IF bstate \in {BUTTON1_RELEASED, BUTTON2_RELEASED, BUTTON3_RELEASED}
        THEN Outcome(wrapper(Release(button.val)), queue)
        ELSE IF bstate \in {BUTTON1_PRESSED, BUTTON2_PRESSED,
                            BUTTON3_PRESSED}
        THEN Outcome(wrapper(Press(button.val)), queue)
        ELSE IF bstate \in {BUTTON1_CLICKED, BUTTON2_CLICKED,
                            BUTTON3_CLICKED,
                            BUTTON1_DOUBLE_CLICKED, BUTTON2_DOUBLE_CLICKED,
                            BUTTON3_DOUBLE_CLICKED,
                            BUTTON1_TRIPLE_CLICKED, BUTTON2_TRIPLE_CLICKED,
                            BUTTON3_TRIPLE_CLICKED}
        THEN \* the queued Release is built first, then the Press
             IF wrapper(Release(button.val)) = Panicked
             THEN Outcome(Panicked, queue)
             ELSE Outcome(wrapper(Press(button.val)),
                          Append(queue, wrapper(Release(button.val))))
        ELSE IF bstate = BUTTON4_PRESSED
        THEN Outcome(wrapper(WheelUp), queue)
        ELSE IF bstate = BUTTON5_PRESSED
        THEN Outcome(wrapper(WheelDown), queue)
        ELSE Outcome(Unknown(get_bytes(bstate)), queue)

\* A mouse report as getmouse fills it in.
MEvent(x, y, bstate) == [x |-> x, y |-> y, bstate |-> bstate]

\* parse_ncurses_char: the arm for code 409
parse_mouse_report(queue, mevent) ==
    LET pos == Vec2(mevent.x, mevent.y)
        ctrl == BitAnd(mevent.bstate, BUTTON_CTRL) # 0
        alt == BitAnd(mevent.bstate, BUTTON_ALT) # 0
        shift == BitAnd(mevent.bstate, BUTTON_SHIFT) # 0
        \* bstate & !modifier_mask: the three bits cleared
        bstate == mevent.bstate - BitAnd(mevent.bstate, BUTTON_ALT)
                                - BitAnd(mevent.bstate, BUTTON_SHIFT)
                                - BitAnd(mevent.bstate, BUTTON_CTRL)
    IN  parse_mouse_button(queue, bstate, ctrl, alt, shift, pos)

\* parse_ncurses_char: the arms that match one code each, as
\* <<code, variant, key>>
key_table ==
    {<<9, "Key", "Tab">>,
     <<10, "Key", "Enter">>, <<13, "Key", "Enter">>,
     <<KEY_ENTER, "Key", "Enter">>,
     <<27, "Key", "Esc">>,
     <<127, "Key", "Backspace">>, <<KEY_BACKSPACE, "Key", "Backspace">>,
     <<519, "Alt", "Del">>, <<520, "AltShift", "Del">>,
     <<521, "Ctrl", "Del">>, <<522, "CtrlShift", "Del">>,
     <<525, "Alt", "Down">>, <<526, "AltShift", "Down">>,
     <<527, "Ctrl", "Down">>, <<528, "CtrlShift", "Down">>,
     <<529, "CtrlAlt", "Down">>,
     <<530, "Alt", "End">>, <<531, "AltShift", "End">>,
     <<532, "Ctrl", "End">>, <<533, "CtrlShift", "End">>,
     <<534, "CtrlAlt", "End">>,
     <<535, "Alt", "Home">>, <<536, "AltShift", "Home">>,
     <<537, "Ctrl", "Home">>, <<538, "CtrlShift", "Home">>,
     <<539, "CtrlAlt", "Home">>,
     <<540, "Alt", "Ins">>, <<542, "Ctrl", "Ins">>,
     <<544, "CtrlAlt", "Ins">>,
     <<545, "Alt", "Left">>, <<546, "AltShift", "Left">>,
     <<547, "Ctrl", "Left">>, <<548, "CtrlShift", "Left">>,
     <<549, "CtrlAlt", "Left">>,
     <<550, "Alt", "PageDown">>, <<551, "AltShift", "PageDown">>,
     <<552, "Ctrl", "PageDown">>, <<553, "CtrlShift", "PageDown">>,
     <<554, "CtrlAlt", "PageDown">>,
     <<555, "Alt", "PageUp">>, <<556, "AltShift", "PageUp">>,
     <<557, "Ctrl", "PageUp">>, <<558, "CtrlShift", "PageUp">>,
     <<559, "CtrlAlt", "PageUp">>,
     <<560, "Alt", "Right">>, <<561, "AltShift", "Right">>,
     <<562, "Ctrl", "Right">>, <<563, "CtrlShift", "Right">>,
     <<564, "CtrlAlt", "Right">>,
     <<566, "Alt", "Up">>, <<567, "AltShift", "Up">>,
     <<568, "Ctrl", "Up">>, <<569, "CtrlShift", "Up">>,
     <<570, "CtrlAlt", "Up">>,
     <<KEY_B2, "Key", "NumpadCenter">>,
     <<KEY_DC, "Key", "Del">>, <<KEY_IC, "Key", "Ins">>,
     <<KEY_BTAB, "Shift", "Tab">>,
     <<KEY_SLEFT, "Shift", "Left">>, <<KEY_SRIGHT, "Shift", "Right">>,
     <<KEY_LEFT, "Key", "Left">>, <<KEY_RIGHT, "Key", "Right">>,
     <<KEY_UP, "Key", "Up">>, <<KEY_DOWN, "Key", "Down">>,
     <<KEY_SR, "Shift", "Up">>, <<KEY_SF, "Shift", "Down">>,
     <<KEY_PPAGE, "Key", "PageUp">>, <<KEY_NPAGE, "Key", "PageDown">>,
     <<KEY_HOME, "Key", "Home">>, <<KEY_END, "Key", "End">>,
     <<KEY_SHOME, "Shift", "Home">>, <<KEY_SEND, "Shift", "End">>,
     <<KEY_SDC, "Shift", "Del">>,
     <<KEY_SNEXT, "Shift", "PageDown">>,
     <<KEY_SPREVIOUS, "Shift", "PageUp">>}

\* Mutant: the `1...25` arm is tried before the `10 | 13 | KEY_ENTER` arm.
parse_key_code_ctrl_first(ch) ==
    IF ch = -1 THEN Refresh
    ELSE IF ch = KEY_RESIZE THEN WindowResize
    ELSE IF ch \in (1..25) \ {9, 10}
    THEN CharEv("CtrlChar", 97 + AsU8(ch - 1))
    ELSE IF \E e \in key_table : e[1] = ch
    THEN LET e == CHOOSE e \in key_table : e[1] = ch
         IN  KeyEv(e[2], e[3])
    ELSE IF ch \in KEY_F1..KEY_F12 THEN FnEv("Key", ch - KEY_F0)
    ELSE IF ch \in 277..288 THEN FnEv("Shift", ch - 276)
    ELSE IF ch \in 289..300 THEN FnEv("Ctrl", ch - 288)
    ELSE IF ch \in 301..312 THEN FnEv("CtrlShift", ch - 300)
    ELSE IF ch \in 313..324 THEN FnEv("Alt", ch - 312)
    ELSE Unknown(get_bytes(ch))

\* parse_ncurses_char for every code but the mouse report's
parse_key_code(ch) ==
    IF ch = -1 THEN Refresh
    ELSE IF ch = KEY_RESIZE THEN WindowResize
    ELSE IF \E e \in key_table : e[1] = ch
    THEN LET e == CHOOSE e \in key_table : e[1] = ch
         IN  KeyEv(e[2], e[3])
    ELSE IF ch \in KEY_F1..KEY_F12 THEN FnEv("Key", ch - KEY_F0)
    ELSE IF ch \in 277..288 THEN FnEv("Shift", ch - 276)
    ELSE IF ch \in 289..300 THEN FnEv("Ctrl", ch - 288)
    ELSE IF ch \in 301..312 THEN FnEv("CtrlShift", ch - 300)
    ELSE IF ch \in 313..324 THEN FnEv("Alt", ch - 312)
    ELSE IF ch \in 1..25 THEN CharEv("CtrlChar", 97 + AsU8(ch - 1))
    ELSE Unknown(get_bytes(ch))

\* Mutant: a queued event is handed out before the code is looked up.
parse_ncurses_char_draining_queue(queue, ch, mevent) ==
    IF ch = KEY_MOUSE THEN parse_mouse_report(queue, mevent)
    ELSE IF queue # <<>> THEN Outcome(Head(queue), Tail(queue))
    ELSE Outcome(parse_key_code(ch), queue)

\* parse_ncurses_char(ch); mevent is what getmouse delivers for code 409
parse_ncurses_char(queue, ch, mevent) ==
    IF ch = KEY_MOUSE THEN parse_mouse_report(queue, mevent)
    ELSE Outcome(parse_key_code(ch), queue)

----------------------------------------------------------------------------
(* utf8.rs: read_char, for the well-formed sequences the model feeds it *)

\* The number of bytes of the sequence a first byte announces.
utf8_len(first) ==
    IF first < 128 THEN 1
    ELSE IF first < 224 THEN 2
    ELSE IF first < 240 THEN 3
    ELSE 4

\* utf8::read_char(first, next): the code point, `rest` being the bytes
\* that `next` supplies.
read_char(first, rest) ==
    CASE utf8_len(first) = 1 -> first
      [] utf8_len(first) = 2 -> (first % 32) * 64 + (rest[1] % 64)
      [] utf8_len(first) = 3 ->
            (first % 16) * 4096 + (rest[1] % 64) * 64 + (rest[2] % 64)
      [] OTHER ->
            (first % 8) * 262144 + (rest[1] % 64) * 4096
            + (rest[2] % 64) * 64 + (rest[3] % 64)

----------------------------------------------------------------------------
(* backend/curses/n.rs: Concrete, the operations *)

\* First bytes of the multi-byte characters the terminal sends.
Utf8Leads == {195, 226}
\* Bytes that continue a sequence.
ContBytes == {130, 169}

\* What getch returns: codes of every kind the translation tells apart.
DriverCodes ==
    {-3, -1, 0, 1, 8, 9, 10, 13, 25, 26, 27, 32, 97, 126, 127}
    \cup Utf8Leads
    \cup {256, KEY_BACKSPACE, KEY_F1, KEY_F12, 277, 288, 289, 312, 324, 325,
          KEY_ENTER, KEY_SRIGHT, KEY_MOUSE, KEY_RESIZE, 519, 523, 541, 570,
          571, 65536}

ContSeqs(n) ==
    IF n = 0 THEN {<<>>}
    ELSE IF n = 1 THEN {<<a>> : a \in ContBytes}
    ELSE {<<a, b>> : a \in ContBytes, b \in ContBytes}

\* The button bits of the reports getmouse delivers: the states the
\* translation knows, a release of the wheel, no bit and two bits at once.
ButtonStates ==
    {BUTTON1_RELEASED, BUTTON1_PRESSED, BUTTON1_CLICKED,
     BUTTON1_DOUBLE_CLICKED, BUTTON1_TRIPLE_CLICKED,
     BUTTON2_RELEASED, BUTTON2_PRESSED, BUTTON2_CLICKED,
     BUTTON2_DOUBLE_CLICKED, BUTTON2_TRIPLE_CLICKED,
     BUTTON3_RELEASED, BUTTON3_PRESSED, BUTTON3_CLICKED,
     BUTTON3_DOUBLE_CLICKED, BUTTON3_TRIPLE_CLICKED,
     BUTTON4_PRESSED, BUTTON5_PRESSED,
     MouseMask(4, 1), 0, BUTTON1_PRESSED + BUTTON3_PRESSED}

ModifierBits ==
    {c + a + s : c \in {0, BUTTON_CTRL}, a \in {0, BUTTON_ALT},
                 s \in {0, BUTTON_SHIFT}}

MouseReports ==
    {MEvent(p.x, p.y, b + m) :
        p \in {Zero, Vec2(MaxCoord, 1)}, b \in ButtonStates,
        m \in ModifierBits}

NoMouse == MEvent(0, 0, 0)
Reads(codes, mouse) == [codes |-> codes, mouse |-> mouse]

\* Mutant: a fresh code is read although an event is queued.
poll_event_skipping_queue(queue, ch, rest, mevent) ==
    IF 32 <= ch /\ ch <= 255 /\ ch # 127
    THEN Outcome(CharEv("Char", read_char(ch, rest)), queue)
    ELSE parse_ncurses_char(queue, ch, mevent)

\* Concrete::poll_event; ch, rest and mevent are what getch, the further
\* getch calls of read_char and getmouse deliver when they are called.
poll_event(queue, ch, rest, mevent) ==
    IF queue # <<>>
    THEN Outcome(Head(queue), Tail(queue))
    ELSE IF 32 <= ch /\ ch <= 255 /\ ch # 127
    THEN Outcome(CharEv("Char", read_char(ch, rest)), queue)
    ELSE parse_ncurses_char(queue, ch, mevent)

\* Concrete::set_refresh_rate: the argument of ncurses::timeout
nc_refresh_timeout(fps) ==
    IF fps = 0 THEN -1 ELSE 1000 \div fps

\* Refresh rates handed to set_refresh_rate.
Rates == {0, 30, 2000}

nc_new ==
    /\ event_queue = <<>>
    /\ n_timeout = -1
    /\ n_in = Reads(<<>>, None)
    /\ n_ret = [tag |-> "init"]

nc_alive == n_ret # Panicked

\* poll_event with an event queued: the driver is not asked.
NcPollQueued ==
    /\ nc_alive
    /\ event_queue # <<>>
    /\ LET o == poll_event(event_queue, -1, <<>>, NoMouse) IN
         /\ n_ret' = o.ret
         /\ event_queue' = o.queue
    /\ n_in' = Reads(<<>>, None)
    /\ UNCHANGED <<n_timeout, not_nc>>

\* poll_event with nothing queued: getch returns ch, which is -1 only when
\* a timeout is set and expires.
NcPollDriver ==
    /\ nc_alive
    /\ event_queue = <<>>
    /\ \E ch \in DriverCodes :
         /\ ch = -1 => n_timeout >= 0
         /\ IF 32 <= ch /\ ch <= 255 /\ ch # 127
            THEN \E rest \in ContSeqs(utf8_len(ch) - 1) :
                   LET o == poll_event(event_queue, ch, rest, NoMouse) IN
                   /\ n_ret' = o.ret
                   /\ event_queue' = o.queue
                   /\ n_in' = Reads(<<ch>> \o rest, None)
            ELSE IF ch = KEY_MOUSE
            THEN \E mevent \in MouseReports :
                   LET o == poll_event(event_queue, ch, <<>>, mevent) IN
                   /\ n_ret' = o.ret
                   /\ event_queue' = o.queue
                   /\ n_in' = Reads(<<ch>>, Some(mevent))
            ELSE LET o == poll_event(event_queue, ch, <<>>, NoMouse) IN
                   /\ n_ret' = o.ret
                   /\ event_queue' = o.queue
                   /\ n_in' = Reads(<<ch>>, None)
    /\ UNCHANGED <<n_timeout, not_nc>>

NcSetRefreshRate ==
    /\ nc_alive
    /\ \E fps \in Rates :
         /\ n_timeout' = nc_refresh_timeout(fps)
         /\ n_ret' = [tag |-> "set_refresh_rate", fps |-> fps]
    /\ n_in' = Reads(<<>>, None)
    /\ UNCHANGED <<event_queue, not_nc>>

NextNcurses ==
    \/ NcPollQueued
    \/ NcPollDriver
    \/ NcSetRefreshRate

----------------------------------------------------------------------------
(* backend/termion.rs: map_key *)

\* termion's events and keys
TKey(k) == [t |-> "Key", key |-> k]
TMouse(m) == [t |-> "Mouse", mouse |-> m]
TUnsupported(bytes) == [t |-> "Unsupported", bytes |-> bytes]
TPlain(name) == [k |-> name]
TF(n) == [k |-> "F", n |-> n]
TChar(c) == [k |-> "Char", c |-> c]
TCtrl(c) == [k |-> "Ctrl", c |-> c]
TAlt(c) == [k |-> "Alt", c |-> c]

\* map_key: the arms for the keys that carry nothing
plain_keys ==
    {<<"Esc", "Esc">>, <<"Backspace", "Backspace">>, <<"Left", "Left">>,
     <<"Right", "Right">>, <<"Up", "Up">>, <<"Down", "Down">>,
     <<"Home", "Home">>, <<"End", "End">>, <<"PageUp", "PageUp">>,
     <<"PageDown", "PageDown">>, <<"Delete", "Del">>, <<"Insert", "Ins">>}

\* map_key
map_key(event) ==
    IF event.t = "Unsupported" THEN Unknown(event.bytes)
    ELSE IF event.t # "Key" THEN Unknown(<<>>)
    ELSE LET key == event.key IN
         IF \E p \in plain_keys : p[1] = key.k
         THEN KeyEv("Key", (CHOOSE p \in plain_keys : p[1] = key.k)[2])
         ELSE IF key.k = "F" /\ key.n < 12 THEN FnEv("Key", key.n)
         ELSE IF key.k = "F" THEN Unknown(<<key.n>>)
         ELSE IF key.k = "Char" /\ key.c = 10 THEN KeyEv("Key", "Enter")
         ELSE IF key.k = "Char" /\ key.c = 9 THEN KeyEv("Key", "Tab")
         ELSE IF key.k = "Char" THEN CharEv("Char", key.c)
         ELSE IF key.k = "Ctrl" /\ key.c = 99 THEN Exit
         ELSE IF key.k = "Ctrl" THEN CharEv("CtrlChar", key.c)
         ELSE IF key.k = "Alt" THEN CharEv("AltChar", key.c)
         ELSE Unknown(<<>>)

----------------------------------------------------------------------------
(* backend/termion.rs: Concrete, set_refresh_rate and poll_event *)

\* The worker thread pushes at most MaxSent events.
MaxSent == 3
\* At most MaxResize WINCH notifications wait in the resize channel.
MaxResize == 2

\* What the worker thread reads from stdin.
StdinEvents == {TKey(TChar(97)), TKey(TPlain("Esc")), TKey(TCtrl(99))}

\* Concrete::set_refresh_rate: 1000 / fps panics on a division by zero,
\* otherwise the new value of self.timeout.
tm_set_refresh_rate(fps) ==
    IF fps = 0 THEN [panic |-> TRUE]
    ELSE [panic |-> FALSE, timeout |-> Some(1000 \div fps)]

\* poll_event: the arms of chan_select! that can proceed; `fired` says
\* whether the timer of this call has run out.
ready_arms(tmo, fired, rsz, inp) ==
    {a \in {"timeout", "resize", "input"} :
        \/ a = "timeout" /\ tmo.some /\ fired
        \/ a = "resize" /\ rsz > 0
        \/ a = "input" /\ inp # <<>>}

\* Mutant: the arms' results are swapped.
poll_arm_swapped(arm, rsz, inp) ==
    CASE arm = "timeout" -> [val |-> WindowResize, resize |-> rsz,
                             input |-> inp]
      [] arm = "resize" -> [val |-> Refresh, resize |-> rsz - 1,
                            input |-> inp]
      [] arm = "input" -> [val |-> Head(inp).ev, resize |-> rsz,
                           input |-> Tail(inp)]

\* Mutant: the input arm hands out the newest message of the channel.
poll_arm_newest_first(arm, rsz, inp) ==
    CASE arm = "timeout" -> [val |-> Refresh, resize |-> rsz, input |-> inp]
      [] arm = "resize" -> [val |-> WindowResize, resize |-> rsz - 1,
                            input |-> inp]
      [] arm = "input" -> [val |-> inp[Len(inp)].ev, resize |-> rsz,
                           input |-> SubSeq(inp, 1, Len(inp) - 1)]

\* poll_event: what the arm chan_select! picked does.
poll_arm(arm, rsz, inp) ==
    CASE arm = "timeout" -> [val |-> Refresh, resize |-> rsz, input |-> inp]
      [] arm = "resize" -> [val |-> WindowResize, resize |-> rsz - 1,
                            input |-> inp]
      [] arm = "input" -> [val |-> Head(inp).ev, resize |-> rsz,
                           input |-> Tail(inp)]

tp_new ==
    /\ timeout = None
    /\ input = <<>>
    /\ resize = 0
    /\ sent = 0
    /\ t_ret = [op |-> "init", panic |-> FALSE]

tp_alive == ~t_ret.panic

\* The worker thread: sender.send(map_key(key)).  A message carries the
\* number of the send, to tell equal events apart.
WorkerSend ==
    /\ tp_alive
    /\ sent < MaxSent
    /\ \E key \in StdinEvents :
         input' = Append(input, [n |-> sent + 1, ev |-> map_key(key)])
    /\ sent' = sent + 1
    /\ UNCHANGED <<timeout, resize, t_ret, not_tp>>

\* The WINCH subscription delivers a notification.
Winch ==
    /\ tp_alive
    /\ resize < MaxResize
    /\ resize' = resize + 1
    /\ UNCHANGED <<timeout, input, sent, t_ret, not_tp>>

TmSetRefreshRate ==
    /\ tp_alive
    /\ \E fps \in Rates :
         LET r == tm_set_refresh_rate(fps) IN
         /\ timeout' = IF r.panic THEN timeout ELSE r.timeout
         /\ t_ret' = [op |-> "set_refresh_rate", fps |-> fps,
                      panic |-> r.panic]
    /\ UNCHANGED <<input, resize, sent, not_tp>>

\* poll_event returns once an arm can proceed; chan_select! shuffles its
\* arms, so any arm that is ready may be the one taken.
TmPollEvent ==
    /\ tp_alive
    /\ \E fired \in BOOLEAN :
         LET ready == ready_arms(timeout, fired, resize, input) IN
         \E arm \in ready :
           LET o == poll_arm(arm, resize, input) IN
           /\ t_ret' = [op |-> "poll_event", panic |-> FALSE,
                        timed |-> timeout.some, ready |-> ready,
                        head |-> IF input = <<>> THEN None
                                 ELSE Some(Head(input)),
                        val |-> o.val]
           /\ resize' = o.resize
           /\ input' = o.input
    /\ UNCHANGED <<timeout, sent, not_tp>>

NextTermionPoll ==
    \/ WorkerSend
    \/ Winch
    \/ TmSetRefreshRate
    \/ TmPollEvent

\* set_refresh_rate with a rate of at least 1.
TmSetRefreshRateAbove0 ==
    /\ tp_alive
    /\ \E fps \in Rates \ {0} :
         LET r == tm_set_refresh_rate(fps) IN
         /\ timeout' = IF r.panic THEN timeout ELSE r.timeout
         /\ t_ret' = [op |-> "set_refresh_rate", fps |-> fps,
                      panic |-> r.panic]
    /\ UNCHANGED <<input, resize, sent, not_tp>>

\* The main loop polls again and again, and chan_select! tries its arms in
\* a freshly shuffled order on every call: while the input channel holds a
\* message, the input arm is not passed over for ever.
TmPollTakesInput ==
    TmPollEvent /\ input' # input

NextTermionStream ==
    \/ WorkerSend
    \/ Winch
    \/ TmSetRefreshRateAbove0
    \/ TmPollEvent

----------------------------------------------------------------------------
(* backend/termion.rs: Concrete, with_color and with_any_color *)

\* At most MaxNest with_* calls are in progress at once.
MaxNest == 3

Styles == {"Background", "Primary", "Shadow"}
Colours(fg, bg) == [fg |-> fg, bg |-> bg]
\* The terminal's colours before anything set them.
DefaultColours == Colours("default", "default")
\* Pairs handed to with_any_color.
AnyColours == {Colours("red", "green"), Colours("cyan", "black")}

\* self.colors, as init_color_style filled it in
colors(style) ==
    CASE style = "Background" -> Colours("white", "blue")
      [] style = "Primary" -> Colours("black", "white")
      [] style = "Shadow" -> Colours("white", "black")

\* Concrete::apply_colorstyle: the colours the terminal prints with next
apply_colorstyle(color_style) == colors(color_style)

\* Concrete::apply_any_color
apply_any_color(pair) == pair

Look(term, style) == [terminal |-> term, style |-> style]

\* A with_* call in progress: its local current_style, and what was
\* active when it started.
Frame(fn, saved, entry) == [fn |-> fn, current_style |-> saved,
                            entry |-> entry]

tc_new ==
    /\ current_style = "Background"
    /\ terminal = DefaultColours
    /\ frames = <<>>
    /\ col_ret = [fn |-> "none"]

\* with_color, up to the call of f
EnterWithColor ==
    /\ Len(frames) < MaxNest
    /\ \E color \in Styles :
         /\ terminal' = apply_colorstyle(color)
         /\ current_style' = color
    /\ frames' = Append(frames, Frame("with_color", current_style,
                                      Look(terminal, current_style)))
    /\ UNCHANGED <<col_ret, not_tc>>

\* with_any_color, up to the call of f
EnterWithAnyColor ==
    /\ Len(frames) < MaxNest
    /\ \E pair \in AnyColours : terminal' = apply_any_color(pair)
    /\ frames' = Append(frames, Frame("with_any_color", current_style,
                                      Look(terminal, current_style)))
    /\ UNCHANGED <<current_style, col_ret, not_tc>>

\* with_color and with_any_color, from the return of f
ReturnFromWith ==
    /\ frames # <<>>
    /\ LET frame == frames[Len(frames)] IN
         /\ current_style' = frame.current_style
         /\ terminal' = apply_colorstyle(frame.current_style)
         /\ col_ret' = [fn |-> frame.fn, before |-> frame.entry,
                        after |-> Look(terminal', current_style')]
    /\ frames' = SubSeq(frames, 1, Len(frames) - 1)
    /\ UNCHANGED not_tc

\* Concrete::clear
Clear ==
    /\ terminal' = apply_colorstyle("Background")
    /\ UNCHANGED <<current_style, frames, col_ret, not_tc>>

NextTermionColor ==
    \/ EnterWithColor
    \/ EnterWithAnyColor
    \/ ReturnFromWith
    \/ Clear

----------------------------------------------------------------------------
(* The specifications *)

NextEvent ==
    \/ CallMousePosition
    \/ CallMakeRelative
    \/ CallRelativize

InitEvent ==
    InitEventArgs /\ sv_new /\ nc_new /\ tp_new /\ tc_new /\ call_idle
SpecEvent ==
    InitEvent /\ [][NextEvent]_vars

InitStack ==
    ev_idle /\ sv_new /\ nc_new /\ tp_new /\ tc_new /\ call_idle
SpecStack ==
    InitStack /\ [][NextStack]_vars

InitNcurses ==
    ev_idle /\ sv_new /\ nc_new /\ tp_new /\ tc_new /\ call_idle
SpecNcurses ==
    InitNcurses /\ [][NextNcurses]_vars

InitTermionStream ==
    ev_idle /\ sv_new /\ nc_new /\ tp_new /\ tc_new /\ call_idle
SpecTermionStream ==
    /\ InitTermionStream
    /\ [][NextTermionStream]_vars
    /\ WF_vars(TmPollTakesInput)

InitTermionPoll ==
    ev_idle /\ sv_new /\ nc_new /\ tp_new /\ tc_new /\ call_idle
SpecTermionPoll ==
    InitTermionPoll /\ [][NextTermionPoll]_vars

InitTermionColor ==
    ev_idle /\ sv_new /\ nc_new /\ tp_new /\ tc_new /\ call_idle
SpecTermionColor ==
    InitTermionColor /\ [][NextTermionColor]_vars

----------------------------------------------------------------------------
(* views/shadow_view.rs: one call of wrap_required_size, wrap_layout or
   wrap_on_event *)

\* ShadowView::wrap_required_size: the constraint handed to the child
wrap_required_size_offer(v, req) ==
    LET offset == or_min(padding(v), req)
    IN  VSub(req, offset)

\* ShadowView::wrap_layout: the size handed to the child's layout
wrap_layout(v, size) ==
    LET offset == or_min(padding(v), size)
    IN  VSub(size, offset)

\* ShadowView::wrap_on_event: Ignored, or the event the child's on_event is
\* called with.
wrap_on_event(v, event) ==
    LET relative == make_relative(event, Vec2(1, 1), None)
    IN  IF relative.some
        THEN [result |-> "forwarded", event |-> relative.val]
        ELSE [result |-> "Ignored"]

\* Sizes proposed to a ShadowView: below, at and above its padding.
ShadowSizes == {Vec2(a, b) : a \in 0..(MaxCoord + 1), b \in 0..(MaxCoord + 1)}

\* Events handed to a ShadowView: a press at every cell of the largest
\* size, and events that mouse_position does not see as mouse events.
ShadowEvents ==
    {MouseEv("Mouse", p, Press("Left")) : p \in ShadowSizes}
    \cup {MouseEv("AltShiftMouse", Vec2(1, 1), Press("Left")),
          KeyEv("Key", "Enter")}

InitShadowArgs ==
    /\ call_args \in
         {[view |-> ShadowedView(1, want, top, left), size |-> z,
           event |-> e] :
            want \in Positions, top \in BOOLEAN, left \in BOOLEAN,
            z \in ShadowSizes, e \in ShadowEvents}
    /\ call_pc = "call"
    /\ call_ret = None

CallWrapRequiredSize ==
    /\ call_pc = "call"
    /\ call_pc' = "wrap_required_size"
    /\ call_ret' =
         LET offered == wrap_required_size_offer(call_args.view,
                                                 call_args.size)
         IN  [offered |-> offered,
              answer |-> inner_required_size(call_args.view, offered),
              val |-> wrap_required_size(call_args.view, call_args.size)]
    /\ UNCHANGED <<call_args, not_call>>

CallWrapLayout ==
    /\ call_pc = "call"
    /\ call_pc' = "wrap_layout"
    /\ call_ret' = [given |-> wrap_layout(call_args.view, call_args.size)]
    /\ UNCHANGED <<call_args, not_call>>

\* wrap_on_event(event) of a ShadowView that was laid out with `size`
CallWrapOnEvent ==
    /\ call_pc = "call"
    /\ call_pc' = "wrap_on_event"
    /\ call_ret' = wrap_on_event(call_args.view, call_args.event)
    /\ UNCHANGED <<call_args, not_call>>

NextShadow ==
    \/ CallWrapRequiredSize
    \/ CallWrapLayout
    \/ CallWrapOnEvent

InitShadow ==
    ev_idle /\ sv_new /\ nc_new /\ tp_new /\ tc_new /\ InitShadowArgs
SpecShadow ==
    InitShadow /\ [][NextShadow]_vars

----------------------------------------------------------------------------
(* event.rs: one call of Key::from_f *)

\* n: u8
InitKeyArgs ==
    /\ call_args \in {[n |-> n] : n \in 0..255}
    /\ call_pc = "call"
    /\ call_ret = None

\* Key::from_f(n): the key returned, or "panic!"
CallFromF ==
    /\ call_pc = "call"
    /\ call_pc' = "from_f"
    /\ call_ret' = [key |-> from_f(call_args.n)]
    /\ UNCHANGED <<call_args, not_call>>

NextKey ==
    \/ CallFromF

InitKey ==
    ev_idle /\ sv_new /\ nc_new /\ tp_new /\ tc_new /\ InitKeyArgs
SpecKey ==
    InitKey /\ [][NextKey]_vars

----------------------------------------------------------------------------
(* backend/curses/n.rs: one call of parse_ncurses_char *)

\* The codes handed to parse_ncurses_char run from -4 to MaxCode, with a
\* few codes far from the table (ch: i32).
MaxCode == 600

FarCodes ==
    {(-2147483647) - 1, -2147483647, -16777216, -65536, -257, -256, -255,
     65536, 16777216, 16909060, 2147483647}

TableCodes == ((-4)..MaxCode) \cup FarCodes

\* Contents of event_queue when the call is made.
Queues ==
    {<<>>,
     <<MouseEv("Mouse", Zero, Release("Left"))>>,
     <<KeyEv("Key", "Enter"), Refresh>>}

InitTableArgs ==
    /\ call_args \in {[ch |-> ch, queue |-> q] :
                        ch \in TableCodes, q \in Queues}
    /\ call_pc = "call"
    /\ call_ret = None

\* parse_ncurses_char(ch) with event_queue = queue: the event returned and the
\* queue left behind.
CallParseNcursesChar ==
    /\ call_pc = "call"
    /\ call_pc' = "parse_ncurses_char"
    /\ IF call_args.ch = KEY_MOUSE
       THEN \E mevent \in MouseReports :
              call_ret' = parse_ncurses_char(call_args.queue, call_args.ch,
                                             mevent)
       ELSE call_ret' = parse_ncurses_char(call_args.queue, call_args.ch,
                                           NoMouse)
    /\ UNCHANGED <<call_args, not_call>>

NextTable ==
    \/ CallParseNcursesChar

InitTable ==
    ev_idle /\ sv_new /\ nc_new /\ tp_new /\ tc_new /\ InitTableArgs
SpecTable ==
    InitTable /\ [][NextTable]_vars

----------------------------------------------------------------------------
(* backend/termion.rs: one call of map_key *)

\* termion's mouse events: Press(button, x, y), Release(x, y), Hold(x, y)
TPress(button, x, y) == [m |-> "Press", button |-> button, x |-> x, y |-> y]
TRelease(x, y) == [m |-> "Release", x |-> x, y |-> y]
THold(x, y) == [m |-> "Hold", x |-> x, y |-> y]

\* The native events handed to map_key.
NativeKeys ==
    {TF(n) : n \in 0..13}
    \cup {TPlain(p[1]) : p \in plain_keys} \cup {TPlain("Null")}
    \cup {TChar(c) : c \in {9, 10, 97, 99}}
    \cup {TCtrl(c) : c \in {97, 99, 109}}
    \cup {TAlt(c) : c \in {97, 99}}

NativeMice ==
    {TPress(b, p.x, p.y) : b \in {"Left", "WheelUp"}, p \in Positions}
    \cup {TRelease(p.x, p.y) : p \in Positions}
    \cup {THold(p.x, p.y) : p \in Positions}

NativeEvents ==
    {TKey(k) : k \in NativeKeys}
    \cup {TMouse(m) : m \in NativeMice}
    \cup {TUnsupported(<<>>), TUnsupported(<<27, 91>>)}

InitMapKeyArgs ==
    /\ call_args \in {[event |-> e] : e \in NativeEvents}
    /\ call_pc = "call"
    /\ call_ret = None

\* map_key(event)
CallMapKey ==
    /\ call_pc = "call"
    /\ call_pc' = "map_key"
    /\ call_ret' = [ret |-> map_key(call_args.event)]
    /\ UNCHANGED <<call_args, not_call>>

NextMapKey ==
    \/ CallMapKey

InitMapKey ==
    ev_idle /\ sv_new /\ nc_new /\ tp_new /\ tc_new /\ InitMapKeyArgs
SpecMapKey ==
    InitMapKey /\ [][NextMapKey]_vars

----------------------------------------------------------------------------
(* Properties of StackView, under SpecStack *)

TopLayer == layers[Len(layers)]

\* The layers i that are the same view before and after a step.
Persisting ==
    {i \in 1..Len(layers) :
        i <= Len(layers') /\ layers'[i].view.id = layers[i].view.id}

\* How many times `calls` holds take_focus(Direction::none()) on view id.
FocusNoneCalls(cs, id) ==
    Cardinality({k \in 1..Len(cs) :
        cs[k] = ViewCall(id, "take_focus", "none")})

\* C1: on_event calls on_event on at most one layer's view, and that layer is
\* the last element of `layers`; pop_layer removes exactly that last element, so
\* the event following a pop is handed to the layer that was directly below,
\* and no layer under the top one is ever handed an event.
C1_OnlyTopLayerReceivesEvents ==
    /\ [](ret.op = "on_event" =>
            /\ Len(calls) <= 1
            /\ \A k \in 1..Len(calls) :
                 /\ calls[k].method = "on_event"
                 /\ layers # <<>>
                 /\ calls[k].view = TopLayer.view.id
                 /\ \A i \in 1..(Len(layers) - 1) :
                      layers[i].view.id # calls[k].view)
    /\ [][ret'.op = "pop_layer" /\ layers # <<>> =>
            /\ Len(layers') = Len(layers) - 1
            /\ \A i \in 1..Len(layers') : layers'[i] = layers[i]]_vars
    /\ [][ret.op = "pop_layer" /\ ret'.op = "on_event" /\ layers # <<>> =>
            \A k \in 1..Len(calls') : calls'[k].view = TopLayer.view.id]_vars

\* C1 witness: with two layers on the stack an event was handed to a view.
C1_Witness ==
    /\ ret.op = "on_event"
    /\ Len(layers) >= 2
    /\ Len(calls) = 1
    /\ calls[1].view = TopLayer.view.id

\* C2: a mouse event of any of the seven variants whose position lies outside
\* the top layer's rectangle [position, position + size) is answered Ignored
\* with no call on any view; one inside it is handed to the top layer's view
\* only, with the layer's position subtracted.
C2_MouseRoutedByTopRectangle ==
    (ret.op = "on_event" /\ IsMouse(ret.event) /\ layers # <<>>) =>
        LET P == TopLayer.position
            S == TopLayer.size
            p == ret.event.pos
            inside == /\ P.x <= p.x /\ p.x < P.x + S.x
                      /\ P.y <= p.y /\ p.y < P.y + S.y
        IN  IF inside
            THEN calls = <<ViewCall(TopLayer.view.id, "on_event",
                                    [ret.event EXCEPT
                                        !.pos = Vec2(p.x - P.x, p.y - P.y)])>>
            ELSE calls = <<>> /\ ret.val = "Ignored"

\* C3: a layer is virgin from the moment it is added until the first layout
\* that includes it; that layout calls take_focus(Direction::none()) on its view
\* once, directly after the view's layout, and clears the flag; the flag never
\* becomes true again, so the call is made exactly once in the layer's life.
C3_VirginClearedByFirstLayout ==
    /\ [](\A i \in 1..Len(layers) :
            /\ layers[i].virgin = ~layers[i].laid_out
            /\ layers[i].focus_calls = IF layers[i].laid_out THEN 1 ELSE 0)
    /\ [][ret'.op = "layout" =>
            \A i \in 1..Len(layers) :
               /\ ~layers'[i].virgin
               /\ FocusNoneCalls(calls', layers[i].view.id)
                    = IF layers[i].virgin THEN 1 ELSE 0
               /\ \A k \in 1..Len(calls') :
                    calls'[k] = ViewCall(layers[i].view.id,
                                         "take_focus", "none")
                    => k > 1 /\ calls'[k - 1].view = layers[i].view.id
                             /\ calls'[k - 1].method = "layout"]_vars
    /\ [][ret'.op # "layout" =>
            /\ \A i \in Persisting : layers'[i].virgin = layers[i].virgin
            /\ \A i \in 1..Len(layers') :
                 i \notin Persisting => layers'[i].virgin]_vars
    /\ [][\A i \in Persisting :
            ~layers[i].virgin => ~layers'[i].virgin]_vars

\* C3 witness: a layout over a layer that an earlier layout had already
\* given focus: its view is laid out again and not given focus again.
C3_Witness ==
    /\ ret.op = "layout"
    /\ layers # <<>>
    /\ \E k \in 1..Len(calls) :
         /\ calls[k].method = "layout"
         /\ calls[k].view = layers[1].view.id
    /\ FocusNoneCalls(calls, layers[1].view.id) = 0
    /\ layers[1].focus_calls = 1
    /\ ~layers[1].virgin

----------------------------------------------------------------------------
(* Properties of Event, under SpecEvent *)

\* C5: for each of the seven variants that carry a position p, make_relative
\* (t, s) returns Some exactly when p.x >= t.x, p.y >= t.y and, when s is
\* given, p.x < t.x + s.x and p.y < t.y + s.y; the Some holds the same
\* variant and sub-action at p - t; mouse_position() is Some(p).
C5_MouseEventsMadeRelative ==
    IsMouse(self_ev) =>
        LET p == self_ev.pos
            t == top_left
            inside ==
                /\ p.x >= t.x /\ p.y >= t.y
                /\ size_opt.some =>
                     /\ p.x < t.x + size_opt.val.x
                     /\ p.y < t.y + size_opt.val.y
        IN  /\ ev_pc = "mouse_position" => ev_ret = Some(p)
            /\ ev_pc = "make_relative" =>
                 ev_ret = IF inside
                          THEN Some([self_ev EXCEPT
                                       !.pos = Vec2(p.x - t.x, p.y - t.y)])
                          ELSE None

----------------------------------------------------------------------------
(* Properties of the ncurses backend, under SpecNcurses *)

ClickedStates == <<BUTTON1_CLICKED, BUTTON2_CLICKED, BUTTON3_CLICKED>>
ClickedButtons == <<"Left", "Middle", "Right">>

EventTags ==
    MouseTags \cup {"WindowResize", "Refresh", "Exit", "Unknown", "Char",
                    "CtrlChar", "AltChar", "Key", "Shift", "Alt",
                    "AltShift", "Ctrl", "CtrlShift", "CtrlAlt"}

\* C4: the poll_event that consumes a mouse report whose button state is
\* BUTTONn_CLICKED returns Press(button n) at the reported position and leaves
\* the matching Release queued; the next poll_event returns that queued event,
\* same position and variant, and reads nothing from the driver.
C4_ClickYieldsPressThenRelease ==
    /\ [](\A n \in 1..3, m \in ModifierBits :
            (n_in.mouse.some
               /\ n_in.mouse.val.bstate = ClickedStates[n] + m) =>
              /\ n_ret.tag \in MouseTags
              /\ n_ret.event = Press(ClickedButtons[n])
              /\ n_ret.pos = Vec2(n_in.mouse.val.x, n_in.mouse.val.y)
              /\ event_queue =
                   <<[n_ret EXCEPT !.event = Release(ClickedButtons[n])]>>)
    /\ [][event_queue # <<>> /\ n_ret'.tag # "set_refresh_rate" =>
            /\ n_ret' = Head(event_queue)
            /\ event_queue' = Tail(event_queue)
            /\ n_in'.codes = <<>>]_vars

\* C7: poll_event never panics and never drops input: whatever code and
\* mouse report the driver delivers, an Event is returned, and a code or
\* button state that the translation does not know comes back as Unknown.
C7_PollAlwaysReturnsAnEvent ==
    /\ n_ret # Panicked
    /\ n_in.codes # <<>> => n_ret.tag \in EventTags
    /\ (n_in.mouse.some
          /\ mouse_button(n_in.mouse.val.bstate
                            - BitAnd(n_in.mouse.val.bstate, BUTTON_CTRL)
                            - BitAnd(n_in.mouse.val.bstate, BUTTON_ALT)
                            - BitAnd(n_in.mouse.val.bstate, BUTTON_SHIFT))
               = None
          /\ n_in.mouse.val.bstate \notin
               {b + m : b \in {BUTTON4_PRESSED, BUTTON5_PRESSED},
                        m \in ModifierBits})
         => n_ret.tag = "Unknown"

----------------------------------------------------------------------------
(* Properties of the termion backend, under SpecTermionPoll *)

\* C8: set_refresh_rate(0) completes normally and switches the periodic
\* refresh off: the ncurses timeout is -1, the termion timeout is unset, so
\* that poll_event has no timer arm.
C8_ZeroRateDisablesRefresh ==
    /\ (n_ret.tag = "set_refresh_rate" /\ n_ret.fps = 0) => n_timeout = -1
    /\ (t_ret.op = "set_refresh_rate" /\ t_ret.fps = 0) =>
          ~t_ret.panic /\ timeout = None

\* The event the arm of a source returns.
ArmEvent(a, head) ==
    CASE a = "timeout" -> Refresh
      [] a = "resize" -> WindowResize
      [] a = "input" -> head.val.ev

\* C9 as stated: with a refresh rate set, poll_event returns the event of the
\* first ready source in the order timer, resize, input.
C9_PriorityOrder ==
    (t_ret.op = "poll_event" /\ t_ret.timed) =>
        t_ret.val =
            IF "timeout" \in t_ret.ready THEN Refresh
            ELSE IF "resize" \in t_ret.ready THEN WindowResize
            ELSE t_ret.head.val.ev

\* C9: with a refresh rate set, poll_event returns the event of a source that
\* is ready: Refresh only once the timer has fired, WindowResize only when a
\* notification waits, otherwise the event at the head of the input channel;
\* when several sources are ready any one of them may be taken.
C9_ReturnsAReadySource ==
    (t_ret.op = "poll_event" /\ t_ret.timed) =>
        /\ t_ret.ready # {}
        /\ \E a \in t_ret.ready : t_ret.val = ArmEvent(a, t_ret.head)
        /\ t_ret.val = Refresh => "timeout" \in t_ret.ready
        /\ t_ret.val = WindowResize => "resize" \in t_ret.ready
        /\ t_ret.val \notin {Refresh, WindowResize} =>
             "input" \in t_ret.ready /\ t_ret.val = t_ret.head.val.ev

\* C9 witness: timer, resize and input were all ready and the input event
\* was the one returned.
C9_Witness ==
    /\ t_ret.op = "poll_event"
    /\ t_ret.timed
    /\ t_ret.ready = {"timeout", "resize", "input"}
    /\ t_ret.val = t_ret.head.val.ev

----------------------------------------------------------------------------
(* Properties of the termion backend, under SpecTermionColor *)

\* C10: when a with_color or with_any_color call returns, at any depth of
\* nesting, the terminal's colours and current_style are the ones that were
\* active just before that call started.
C10_ColoursRestoredOnReturn ==
    col_ret.fn # "none" => col_ret.after = col_ret.before

----------------------------------------------------------------------------
(* Properties of ShadowView, under SpecShadow *)

\* C11: the padding is (1 + left_padding, 1 + top_padding), (2,2) with both
\* flags set; for every size z wrap_required_size offers the child
\* z - min(padding, z) on each axis, never below zero, and returns the
\* child's answer plus min(padding, z); wrap_layout hands the child the same
\* z - min(padding, z).
C11_PaddingClampedToSize ==
    call_pc \in {"wrap_required_size", "wrap_layout"} =>
        LET v == call_args.view
            z == call_args.size
            px == 1 + (IF v.left_padding THEN 1 ELSE 0)
            py == 1 + (IF v.top_padding THEN 1 ELSE 0)
            mx == IF px <= z.x THEN px ELSE z.x
            my == IF py <= z.y THEN py ELSE z.y
        IN  /\ padding(v) = Vec2(px, py)
            /\ (v.left_padding /\ v.top_padding) => padding(v) = Vec2(2, 2)
            /\ call_pc = "wrap_required_size" =>
                 /\ call_ret.offered = Vec2(z.x - mx, z.y - my)
                 /\ call_ret.offered.x >= 0 /\ call_ret.offered.y >= 0
                 /\ call_ret.val = Vec2(call_ret.answer.x + mx,
                                        call_ret.answer.y + my)
            /\ call_pc = "wrap_layout" =>
                 call_ret.given = Vec2(z.x - mx, z.y - my)

\* C11 witness: with both paddings set, a size narrower than the padding
\* and taller than it: the child is offered no column and the rows left.
C11_Witness ==
    /\ call_pc = "wrap_required_size"
    /\ call_args.view.left_padding /\ call_args.view.top_padding
    /\ call_args.size = Vec2(1, 3)
    /\ call_ret.offered = Vec2(0, 1)
    /\ call_ret.val = Vec2(call_ret.answer.x + 1, call_ret.answer.y + 2)

----------------------------------------------------------------------------
(* Properties of required_size, under SpecStack and SpecShadow *)

Within(a, c) == a.x <= c.x /\ a.y <= c.y

\* C12: when every child answers required_size(c) with a size within c on
\* both axes, StackView::required_size(c) and ShadowView::wrap_required_size
\* (c) answer within c too, for every c, a zero axis and a stack without
\* layers included.
C12_RequiredSizeWithinConstraint ==
    /\ (ret.op = "required_size"
          /\ \A i \in 1..Len(layers) :
               Within(view_required_size(layers[i].view, ret.size),
                      ret.size))
         => Within(ret.val, ret.size)
    /\ (call_pc = "wrap_required_size"
          /\ Within(call_ret.answer, call_ret.offered))
         => Within(call_ret.val, call_args.size)

----------------------------------------------------------------------------
(* Properties of an empty StackView, under SpecStack *)

\* C13: a StackView without layers, never filled or emptied by pop_layer,
\* answers Ignored to every event without calling any view, answers false to
\* take_focus from every direction, and pop_layer leaves it as it is.
C13_EmptyStackIgnoresEverything ==
    /\ []((layers = <<>> /\ ret.op = "on_event") =>
            ret.val = "Ignored" /\ calls = <<>>)
    /\ []((layers = <<>> /\ ret.op = "take_focus") =>
            ret.val = "false" /\ calls = <<>>)
    /\ [][(layers = <<>> /\ ret'.op = "pop_layer") =>
            /\ layers' = <<>>
            /\ last_size' = last_size
            /\ calls' = <<>>]_vars

\* C13 witness: every layer that was added has been popped, and a click
\* sent to the stack was ignored.
C13_Witness ==
    /\ layers = <<>>
    /\ next_view > 1
    /\ ret.op = "on_event"
    /\ IsMouse(ret.event)
    /\ ret.val = "Ignored"

----------------------------------------------------------------------------
(* Properties of Key::from_f, under SpecKey *)

----------------------------------------------------------------------------
(* Properties of the ncurses translation table, under SpecTable *)

\* parse_ncurses_char has returned for a code that is not the mouse report's.
TableReturned ==
    call_pc = "parse_ncurses_char" /\ call_args.ch # KEY_MOUSE

\* (char) ('a' + c - 1) as a code point
CtrlLetter(c) == 96 + c

\* C15 as stated: every code c in 1..=25 other than 8, 9 and 10 translates to
\* CtrlChar(char('a' + c - 1)).
C15_CtrlCharButEightNineTen ==
    (TableReturned /\ call_args.ch \in (1..25) \ {8, 9, 10})
        => call_ret.ret = CharEv("CtrlChar", CtrlLetter(call_args.ch))

\* C15: every code c in 1..=25 other than 9, 10 and 13 translates to
\* CtrlChar(char('a' + c - 1)), code 8 included; 9 translates to Key(Tab),
\* 10 and 13 to Key(Enter).
C15_CtrlCharButTabAndEnter ==
    (TableReturned /\ call_args.ch \in 1..25)
        => call_ret.ret =
             IF call_args.ch = 9 THEN KeyEv("Key", "Tab")
             ELSE IF call_args.ch \in {10, 13} THEN KeyEv("Key", "Enter")
             ELSE CharEv("CtrlChar", CtrlLetter(call_args.ch))

\* Code 13 has been translated, to Key(Enter).
C15_Witness ==
    /\ TableReturned
    /\ call_args.ch = 13
    /\ call_ret.ret = KeyEv("Key", "Enter")

\* The modifiers and keys of the block of extension codes.
ExtensionTags == {"Alt", "AltShift", "Ctrl", "CtrlShift", "CtrlAlt", "Shift"}
ExtensionKeys ==
    {"Del", "Down", "End", "Home", "Ins", "Left",
     "PageDown", "PageUp", "Right", "Up"}

\* C16 as stated: every code in 519..=570 translates to a modifier+key event;
\* none of them translates to Unknown.
C16_ExtensionBlockIsContiguous ==
    (TableReturned /\ call_args.ch \in 519..570)
        => /\ call_ret.ret.tag \in ExtensionTags
           /\ call_ret.ret.key \in ExtensionKeys

\* Code 523, inside the block, has been translated to Unknown.
C16_HoleInBlock ==
    /\ TableReturned
    /\ call_args.ch = 523
    /\ call_ret.ret = Unknown(<<11, 2, 0, 0>>)

\* The code of function key Fk under each modifier: ncurses numbers the
\* plain keys from KEY_F0, and the modified ones follow in blocks of twelve.
FnCode(tag, k) ==
    CASE tag = "Key" -> KEY_F0 + k
      [] tag = "Shift" -> 276 + k
      [] tag = "Ctrl" -> 288 + k
      [] tag = "CtrlShift" -> 300 + k
      [] tag = "Alt" -> 312 + k

FnTags == {"Key", "Shift", "Ctrl", "CtrlShift", "Alt"}

\* C17: for every k in 1..=12 the native code of Fk translates to Key(Fk),
\* 276 + k to Shift(Fk), 288 + k to Ctrl(Fk), 300 + k to CtrlShift(Fk) and
\* 312 + k to Alt(Fk); no code in 277..=324 panics in from_f or is taken by an
\* earlier entry of the table.
C17_FunctionKeyBlocks ==
    TableReturned =>
        /\ \A tag \in FnTags : \A k \in 1..12 :
             call_args.ch = FnCode(tag, k)
                => call_ret.ret = KeyEv(tag, FKeys[k])
        /\ call_args.ch \in 277..324
             => /\ call_ret.ret # Panicked
                /\ call_ret.ret.tag \in FnTags \ {"Key"}
                /\ \E k \in 1..12 : call_ret.ret.key = FKeys[k]

\* Code 324 has been translated, to Alt(F12).
C17_Witness ==
    /\ TableReturned
    /\ call_args.ch = 324
    /\ call_ret.ret = KeyEv("Alt", "F12")

\* Byte i (from 0) of the two's complement form of a 32-bit code: a negative
\* code is 2^31 above a code that is not negative, and has the top bit set.
TwosComplementByte(code, i) ==
    LET low == IF code < 0 THEN (code + 2147483647) + 1 ELSE code
        byte == (low \div Pow2(8 * i)) % 256
    IN  IF code < 0 /\ i = 3 THEN byte + 128 ELSE byte

\* The 32-bit signed code that four bytes, lowest first, stand for.
CodeOfBytes(bytes) ==
    bytes[1] + 256 * bytes[2] + 65536 * bytes[3]
    + 16777216 * (IF bytes[4] >= 128 THEN bytes[4] - 256 ELSE bytes[4])

\* Codes outside every arm of the table: below -1, 0, 26, 28..126, 128..257,
\* and above the block of extension codes.
OutsideTable(code) ==
    \/ code < -1
    \/ code \in {0, 26}
    \/ code \in 28..126
    \/ code \in 128..257
    \/ code > 570

\* C18: a code that no table entry matches (the negative ones other than -1
\* included) translates to Unknown(bytes) with exactly four bytes,
\* bytes[i] = (code >> 8i) & 0xFF, from which the code is recovered.
C18_UnknownCarriesFourBytes ==
    TableReturned =>
        /\ OutsideTable(call_args.ch) => call_ret.ret.tag = "Unknown"
        /\ call_ret.ret.tag = "Unknown" =>
             /\ Len(call_ret.ret.bytes) = 4
             /\ \A i \in 0..3 :
                  call_ret.ret.bytes[i + 1]
                    = TwosComplementByte(call_args.ch, i)
             /\ CodeOfBytes(call_ret.ret.bytes) = call_args.ch

\* The negative code -257 has been translated, to Unknown of its four bytes.
C18_Witness ==
    /\ TableReturned
    /\ call_args.ch = -257
    /\ call_ret.ret = Unknown(<<255, 254, 255, 255>>)

\* C19: for a code that is not the mouse report's, parse_ncurses_char returns
\* the same Event whatever event_queue holds, and leaves event_queue as it
\* was.
C19_KeyCodesIgnoreQueue ==
    TableReturned =>
        /\ call_ret.queue = call_args.queue
        /\ \A q \in Queues :
             parse_ncurses_char(q, call_args.ch, NoMouse)
               = Outcome(call_ret.ret, q)

\* Code 27 has been translated with two events waiting in event_queue.
C19_Witness ==
    /\ TableReturned
    /\ call_args.ch = 27
    /\ Len(call_args.queue) = 2
    /\ call_ret = Outcome(KeyEv("Key", "Esc"), call_args.queue)

----------------------------------------------------------------------------
(* Properties of termion's map_key, under SpecMapKey *)

MapKeyReturned == call_pc = "map_key"

\* C20 as stated: map_key maps the native events one to one: F(n) for n in
\* 1..=12 to Key(Fn), a mouse event to a mouse Event at the same position,
\* Ctrl('c') to Exit and any other Ctrl(c) to CtrlChar(c); two different
\* native events never map to the same Event.
C20_MapKeyOneToOne ==
    MapKeyReturned =>
        LET event == call_args.event
            mapped == call_ret.ret
        IN  /\ \A n \in 1..12 :
                 event = TKey(TF(n)) => mapped = KeyEv("Key", FKeys[n])
            /\ event.t = "Mouse"
                 => /\ mapped.tag = "Mouse"
                    /\ mapped.pos = Vec2(event.mouse.x, event.mouse.y)
            /\ event = TKey(TCtrl(99)) => mapped = Exit
            /\ \A c \in 0..127 :
                 (c # 99 /\ event = TKey(TCtrl(c)))
                    => mapped = CharEv("CtrlChar", c)
            /\ \A other \in NativeEvents :
                 other # event => map_key(other) # mapped

\* F(12) has been mapped, to Unknown([12]).
C20_F12IsUnknown ==
    /\ MapKeyReturned
    /\ call_args.event = TKey(TF(12))
    /\ call_ret.ret = Unknown(<<12>>)

\* A press of the left button has been mapped, to Unknown([]), as a release
\* elsewhere is.
C20_MouseIsUnknown ==
    /\ MapKeyReturned
    /\ call_args.event = TMouse(TPress("Left", 1, 2))
    /\ call_ret.ret = Unknown(<<>>)
    /\ map_key(TMouse(TRelease(2, 1))) = call_ret.ret

----------------------------------------------------------------------------
(* Properties of Key::from_f as documented, under SpecKey *)

\* C21 as stated: Key::from_f panics if n == 0 or n > 12, and maps only 1 to
\* F1, ..., 12 to F12.
C21_FromFPanicsOnZero ==
    call_pc = "from_f" =>
        /\ call_ret.key = "panic!" <=> (call_args.n = 0 \/ call_args.n > 12)
        /\ call_args.n \in 1..12 => call_ret.key = FKeys[call_args.n]

\* from_f(0) has returned, with Key::F0.
C21_ZeroGivesF0 ==
    /\ call_pc = "from_f"
    /\ call_args.n = 0
    /\ call_ret.key = "F0"

----------------------------------------------------------------------------
(* Properties of the queue of the ncurses backend, under SpecNcurses *)

\* C22: a poll_event that starts with event_queue not empty returns the
\* oldest queued event, removes exactly that event and reads neither a code
\* nor a mouse report from the driver; the driver is read only by a
\* poll_event that starts with event_queue empty.
C22_QueueBeforeDriver ==
    [][n_ret'.tag # "set_refresh_rate" =>
         /\ event_queue # <<>> =>
              /\ n_ret' = Head(event_queue)
              /\ event_queue' = Tail(event_queue)
              /\ n_in' = Reads(<<>>, None)
         /\ (n_in'.codes # <<>> \/ n_in'.mouse.some) =>
              event_queue = <<>>]_vars

\* A poll_event has returned a Release without reading from the driver:
\* the Release was the queued one.
C22_Witness ==
    /\ n_ret.tag \in MouseTags
    /\ n_ret.event.kind = "Release"
    /\ n_in = Reads(<<>>, None)
    /\ event_queue = <<>>

----------------------------------------------------------------------------
(* Properties of ShadowView::wrap_on_event, under SpecShadow *)

\* The top-left corner of the region where the wrapped view is drawn.
ChildCorner(v) ==
    Vec2(IF v.left_padding THEN 1 ELSE 0, IF v.top_padding THEN 1 ELSE 0)

\* p lies in the region where the wrapped view is drawn when the ShadowView
\* has size z: not in the padding, not in the shadow row or column.
InChildRegion(v, z, p) ==
    /\ ChildCorner(v).x <= p.x /\ p.x + 1 < z.x
    /\ ChildCorner(v).y <= p.y /\ p.y + 1 < z.y

\* C23 as stated: for each padding setting and allotted size z, a mouse
\* event at p reaches the wrapped view iff p lies in the region where that
\* view is drawn, and then with position p - (left_padding, top_padding);
\* otherwise on_event returns Ignored.
C23_MouseReachesChildInItsRegion ==
    (call_pc = "wrap_on_event" /\ call_args.event.tag \in MouseTags)
        => IF InChildRegion(call_args.view, call_args.size,
                            call_args.event.pos)
           THEN call_ret =
                  [result |-> "forwarded",
                   event |-> [call_args.event EXCEPT
                               !.pos = VSub(call_args.event.pos,
                                            ChildCorner(call_args.view))]]
           ELSE call_ret = [result |-> "Ignored"]

\* A ShadowView without padding, of size (3,3), has ignored a press on its
\* top-left cell, where the wrapped view is drawn.
C23_PressOnChildIgnored ==
    /\ call_pc = "wrap_on_event"
    /\ ~call_args.view.left_padding /\ ~call_args.view.top_padding
    /\ call_args.size = Vec2(3, 3)
    /\ call_args.event = MouseEv("Mouse", Zero, Press("Left"))
    /\ call_ret = [result |-> "Ignored"]

\* A ShadowView with both paddings, of size (3,3), has forwarded a press on
\* its shadow corner (2,2) to the wrapped view.
C23_PressOnShadowForwarded ==
    /\ call_pc = "wrap_on_event"
    /\ call_args.view.left_padding /\ call_args.view.top_padding
    /\ call_args.size = Vec2(3, 3)
    /\ call_args.event = MouseEv("Mouse", Vec2(2, 2), Press("Left"))
    /\ call_ret = [result |-> "forwarded",
                   event |-> MouseEv("Mouse", Vec2(1, 1), Press("Left"))]

----------------------------------------------------------------------------
(* Properties of the input channel of the termion backend, under
   SpecTermionStream *)

\* Message k, the k-th the worker thread pushed, waits in the input channel.
InChannel(k) == \E i \in 1..Len(input) : input[i].n = k

----------------------------------------------------------------------------
(* Properties of the mouse reports of the ncurses backend, under SpecNcurses *)

\* The recognised button states with the sub-action each stands for alone.
ButtonNames == <<"Left", "Middle", "Right">>
RecognisedStates ==
    {<<MouseMask(n, 1), Release(ButtonNames[n])>> : n \in 1..3}
    \cup {<<MouseMask(n, m), Press(ButtonNames[n])>> :
            n \in 1..3, m \in {2, 4, 8, 16}}
    \cup {<<BUTTON4_PRESSED, WheelUp>>, <<BUTTON5_PRESSED, WheelDown>>}

\* The Event variant of a set of modifiers, given as <<ctrl, alt, shift>>.
VariantOf(mods) ==
    CASE mods = <<FALSE, FALSE, FALSE>> -> "Mouse"
      [] mods = <<TRUE, FALSE, FALSE>> -> "CtrlMouse"
      [] mods = <<FALSE, TRUE, FALSE>> -> "AltMouse"
      [] mods = <<FALSE, FALSE, TRUE>> -> "ShiftMouse"
      [] mods = <<TRUE, TRUE, FALSE>> -> "CtrlAltMouse"
      [] mods = <<TRUE, FALSE, TRUE>> -> "CtrlShiftMouse"
      [] mods = <<FALSE, TRUE, TRUE>> -> "AltShiftMouse"
      [] OTHER -> "none"

ModifierWord(mods) ==
    (IF mods[1] THEN BUTTON_CTRL ELSE 0) + (IF mods[2] THEN BUTTON_ALT ELSE 0)
    + (IF mods[3] THEN BUTTON_SHIFT ELSE 0)

ModifierSets == {<<c, a, s>> : c \in BOOLEAN, a \in BOOLEAN, s \in BOOLEAN}

\* The poll_event that read a report of button state b with modifiers mods
\* returned the sub-action of b alone, in the variant of mods, at the
\* reported position.
ReportTranslated(b, mods) ==
    (n_in.mouse.some /\ n_in.mouse.val.bstate = b[1] + ModifierWord(mods))
        => /\ n_ret.tag \in MouseTags
           /\ n_ret.event = b[2]
           /\ VariantOf(mods) # "none" => n_ret.tag = VariantOf(mods)
           /\ n_ret.pos = Vec2(n_in.mouse.val.x, n_in.mouse.val.y)

\* C25 as stated: for a report of a recognised button state B with any set M
\* of the modifier bits Ctrl, Alt and Shift, the returned event has the
\* sub-action and button of B alone, the variant matching M and the reported
\* position.
C25_ModifiersSelectVariant ==
    \A b \in RecognisedStates : \A mods \in ModifierSets :
        ReportTranslated(b, mods)

\* The same for the seven sets of modifiers that have a variant.
C25_SevenModifierSets ==
    \A b \in RecognisedStates : \A mods \in ModifierSets :
        VariantOf(mods) # "none" => ReportTranslated(b, mods)

\* A double click of the middle button with Alt and Shift has been
\* translated, to AltShiftMouse with Press(Middle).
C25_AltShiftDoubleClick ==
    /\ n_in.mouse.some
    /\ n_in.mouse.val.bstate
         = BUTTON2_DOUBLE_CLICKED + BUTTON_ALT + BUTTON_SHIFT
    /\ n_ret.tag = "AltShiftMouse"
    /\ n_ret.event = Press("Middle")

\* A press of the left button with Ctrl, Alt and Shift has been read, and
\* poll_event panicked.
C25_AllModifiersPanic ==
    /\ n_in.mouse.some
    /\ n_in.mouse.val.bstate
         = BUTTON1_PRESSED + BUTTON_CTRL + BUTTON_ALT + BUTTON_SHIFT
    /\ n_ret = Panicked

----------------------------------------------------------------------------
(* Properties of StackView::layout, focus_view and required_size, under
   SpecStack *)

IsLayoutCall(c) == c.method = "layout"
IsRequiredSizeCall(c) == c.method = "required_size"

\* C26: layout(size) lays out every layer, bottom to top, once: each layer's
\* recorded size becomes the componentwise minimum of `size` and its view's
\* required_size(size), so it exceeds `size` on neither axis, the layer's view
\* receives layout with exactly that size, and last_size becomes `size`.
C26_LayoutSizesEveryLayer ==
    ret.op = "layout" =>
        /\ last_size = ret.size
        /\ \A i \in 1..Len(layers) :
             /\ layers[i].size
                  = VMin(ret.size, view_required_size(layers[i].view,
                                                      ret.size))
             /\ layers[i].size.x <= ret.size.x
             /\ layers[i].size.y <= ret.size.y
        /\ SelectSeq(calls, IsLayoutCall)
             = [i \in 1..Len(layers) |->
                  ViewCall(layers[i].view.id, "layout", layers[i].size)]
        /\ SelectSeq(calls, IsRequiredSizeCall)
             = [i \in 1..Len(layers) |->
                  ViewCall(layers[i].view.id, "required_size", ret.size)]

\* layout has run on two layers, and the bottom one asked for more than the
\* surface and was cut down to it.
C26_Witness ==
    /\ ret.op = "layout"
    /\ Len(layers) = 2
    /\ view_required_size(layers[1].view, ret.size).x > ret.size.x
    /\ layers[1].size.x = ret.size.x
    /\ calls # <<>>

\* The layers whose view answers Ok(()) to focus_view with the selector.
Matching(selector) ==
    {i \in 1..Len(layers) : layers[i].view.id \in selector}

\* The lowest of a set of layers that is not empty.
Lowest(S) == CHOOSE i \in S : \A j \in S : i <= j

\* C27: focus_view(selector) tries the layers bottom to top, stops at the
\* first whose view returns Ok and returns Ok(()), trying no later layer; it
\* returns Err(()) iff every layer returns Err (so on an empty stack), never
\* panics and leaves the layers, their order, sizes, positions and virgin
\* flags as they were.  call_on_any visits every layer in the same order.
C27_FocusViewStopsAtFirstOk ==
    /\ [](ret.op = "focus_view" =>
            LET tried == IF Matching(ret.selector) = {} THEN Len(layers)
                         ELSE Lowest(Matching(ret.selector))
            IN  /\ ret.val \in {"Ok", "Err"}
                /\ ret.val = "Err" <=> Matching(ret.selector) = {}
                /\ calls = [i \in 1..tried |->
                              ViewCall(layers[i].view.id, "focus_view",
                                       ret.selector)])
    /\ [](ret.op = "call_on_any" =>
            calls = [i \in 1..Len(layers) |->
                       ViewCall(layers[i].view.id, "call_on_any",
                                ret.selector)])
    /\ [][ret'.op \in {"focus_view", "call_on_any"} =>
            layers' = layers /\ last_size' = last_size]_vars

\* focus_view has returned Ok after trying the bottom layer only, although
\* the layer above it matches as well.
C27_Witness ==
    /\ ret.op = "focus_view"
    /\ Len(layers) = 2
    /\ Matching(ret.selector) = {1, 2}
    /\ ret.val = "Ok"
    /\ Len(calls) = 1

----------------------------------------------------------------------------
(* Properties of Event::relativize as documented, under SpecEvent *)

\* C28 as stated: relativize(top_left) subtracts top_left from the position
\* of a mouse event whose position is at least top_left on both axes; for a
\* position smaller than top_left on some axis, or an event that is not a
\* mouse event, the event is left unchanged and nothing overflows or panics.
C28_RelativizeOnlyWhenItFits ==
    ev_pc = "relativize" =>
        /\ ~ev_ret.panic
        /\ ev_ret.self =
             IF IsMouse(self_ev) /\ fits_in(top_left, self_ev.pos)
             THEN [self_ev EXCEPT
                     !.pos = Vec2(self_ev.pos.x - top_left.x,
                                  self_ev.pos.y - top_left.y)]
             ELSE self_ev

\* relativize((1,1)) on a Mouse event at (0,0) has panicked on the
\* subtraction.
C28_SubtractionPanics ==
    /\ ev_pc = "relativize"
    /\ self_ev.tag = "Mouse"
    /\ self_ev.pos = Zero
    /\ top_left = Vec2(1, 1)
    /\ ev_ret.panic

\* The same call in a build without overflow checks has changed the event:
\* its position has wrapped around.
C28_PositionWraps ==
    /\ ev_pc = "relativize"
    /\ self_ev.tag = "Mouse"
    /\ self_ev.pos = Zero
    /\ top_left = Vec2(1, 1)
    /\ ~ev_ret.panic
    /\ ev_ret.self # self_ev

\* The largest number of a set of numbers that is not empty.
Largest(S) == CHOOSE m \in S : \A k \in S : k <= m

\* C29: required_size changes nothing of the StackView (layers and their
\* order, recorded sizes, positions, virgin flags, last_size) nor of the
\* ShadowViews of its layers (padding flags), and its answer is the
\* componentwise maximum of (1,1) and the layers' answers: with children whose
\* required_size is idempotent, calls repeated with the same constraint
\* return the same size.
C29_RequiredSizeIsIdempotent ==
    /\ [](ret.op = "required_size" =>
            LET answer(i) == view_required_size(layers[i].view, ret.size)
            IN  ret.val =
                  Vec2(Largest({1} \cup {answer(i).x : i \in 1..Len(layers)}),
                       Largest({1} \cup {answer(i).y : i \in 1..Len(layers)})))
    /\ [][ret'.op = "required_size" =>
            layers' = layers /\ last_size' = last_size]_vars

\* required_size has answered for a stack that was laid out before, holds a
\* ShadowView under another layer, and the answer is the bottom layer's:
\* more than what the top layer asks for.
C29_Witness ==
    /\ ret.op = "required_size"
    /\ last_size # Zero
    /\ Len(layers) = 2
    /\ layers[1].view.shadow
    /\ layers[1].laid_out
    /\ ret.val = view_required_size(layers[1].view, ret.size)
    /\ ret.val # view_required_size(layers[2].view, ret.size)

\* The button states of a click, a double click and a triple click.
ClickReports ==
    {MouseMask(n, m) : n \in 1..3, m \in {4, 8, 16}}

\* The report the last poll_event read was a click, whatever modifiers it
\* carries.
ReadAClick ==
    /\ n_in.mouse.some
    /\ \E b \in ClickReports, m \in ModifierBits :
         n_in.mouse.val.bstate = b + m

\* event_queue holds at most one event, and an event it holds is a mouse
\* Release.
QueueHoldsAtMostOneRelease ==
    /\ Len(event_queue) <= 1
    /\ \A i \in 1..Len(event_queue) :
         /\ event_queue[i].tag \in MouseTags
         /\ event_queue[i].event.kind = "Release"

\* C30 as stated: in every reachable state event_queue holds at most one
\* event, any event it holds is a mouse Release, and each click report
\* (double and triple clicks included) contributes exactly one queued
\* Release.
C30_OneReleasePerClick ==
    /\ QueueHoldsAtMostOneRelease
    /\ ReadAClick =>
         /\ Len(event_queue) = 1
         /\ event_queue[1].pos = Vec2(n_in.mouse.val.x, n_in.mouse.val.y)

\* The same without the clicks that carry Ctrl, Alt and Shift together.
C30_OneReleasePerClickThatReturns ==
    /\ QueueHoldsAtMostOneRelease
    /\ (ReadAClick /\ n_ret # Panicked) =>
         /\ Len(event_queue) = 1
         /\ event_queue[1].pos = Vec2(n_in.mouse.val.x, n_in.mouse.val.y)

\* A triple click has been read and one Release is queued.
C30_TripleClickQueuesOne ==
    /\ n_in.mouse.some
    /\ n_in.mouse.val.bstate = BUTTON3_TRIPLE_CLICKED
    /\ event_queue = <<MouseEv("Mouse", Vec2(n_in.mouse.val.x,
                                             n_in.mouse.val.y),
                               Release("Right"))>>

\* A click with Ctrl, Alt and Shift has been read: poll_event panicked and
\* nothing is queued.
C30_ClickQueuesNothing ==
    /\ ReadAClick
    /\ n_ret = Panicked
    /\ event_queue = <<>>

----------------------------------------------------------------------------
(* Frame properties of the StackView operations, under SpecStack *)

\* The fields of the layers the stack operations must leave alone.
Kept(layer) ==
    [size |-> layer.size, position |-> layer.position,
     placement |-> layer.placement, virgin |-> layer.virgin,
     view |-> layer.view]

\* C31: add_layer, add_layer_at and add_fullscreen_layer append exactly one
\* layer, with size (0,0), position (0,0) and virgin = true, and leave the
\* size, position, placement and virgin flag of every existing layer and
\* last_size as they were; pop_layer removes exactly the last layer and
\* leaves the remaining ones and last_size as they were; on_event and
\* take_focus change none of these fields.
C31_StackOperationsFrame ==
    [][/\ ret'.op \in {"add_layer", "add_layer_at", "add_fullscreen_layer"} =>
            /\ Len(layers') = Len(layers) + 1
            /\ \A i \in 1..Len(layers) : Kept(layers'[i]) = Kept(layers[i])
            /\ layers'[Len(layers')].size = Zero
            /\ layers'[Len(layers')].position = Zero
            /\ layers'[Len(layers')].virgin
            /\ (ret'.op = "add_fullscreen_layer")
                 <=> (layers'[Len(layers')].placement = Fullscreen)
            /\ last_size' = last_size
       /\ ret'.op = "pop_layer" =>
            /\ Len(layers') = (IF layers = <<>> THEN 0 ELSE Len(layers) - 1)
            /\ \A i \in 1..Len(layers') : Kept(layers'[i]) = Kept(layers[i])
            /\ last_size' = last_size
       /\ ret'.op \in {"on_event", "take_focus"} =>
            /\ Len(layers') = Len(layers)
            /\ \A i \in 1..Len(layers) : Kept(layers'[i]) = Kept(layers[i])
            /\ last_size' = last_size]_vars

\* A layer has been added on top of a layer that was laid out and is no
\* longer virgin: the new one is virgin, with no size, the old one kept its
\* size.
C31_Witness ==
    /\ ret.op \in {"add_layer", "add_layer_at", "add_fullscreen_layer"}
    /\ Len(layers) = 2
    /\ last_size # Zero
    /\ ~layers[1].virgin /\ layers[1].size # Zero
    /\ layers[2].virgin /\ layers[2].size = Zero

----------------------------------------------------------------------------
(* Properties of StackView::offset, under SpecStack *)

\* Every layer of the stack went through the last layout: no layer was
\* added since.
LaidOut == \A i \in 1..Len(layers) : layers[i].laid_out

\* The position stored for the layer below layer i, the origin for the
\* bottom layer.
PositionBelow(i) == IF i = 1 THEN Zero ELSE layers[i - 1].position

\* C32: after a layout followed by any number of pop_layer, on_event and
\* take_focus calls, with no layer added since, offset() is the stored
\* position of the top layer, the one on_event makes mouse events relative
\* to, and the origin when the stack is empty; each stored position is the
\* one computed from the layer's size, the surface size and the position of
\* the layer directly below, and the origin for a Fullscreen layer.
C32_OffsetIsTopLayerPosition ==
    LaidOut =>
        /\ ret.op = "offset" =>
             ret.val = IF layers = <<>> THEN Zero
                       ELSE layers[Len(layers)].position
        /\ \A i \in 1..Len(layers) :
             /\ layers[i].position
                  = compute_offset(layers[i].placement, layers[i].size,
                                   last_size, PositionBelow(i))
             /\ layers[i].placement = Fullscreen
                  => layers[i].position = Zero

\* offset() has answered for two laid out layers, the top one placed
\* relative to the one below and away from it.
C32_Witness ==
    /\ ret.op = "offset"
    /\ Len(layers) = 2
    /\ LaidOut
    /\ layers[2].placement # Fullscreen
    /\ layers[2].position # layers[1].position
    /\ ret.val = layers[2].position
    /\ ret.val # Zero

====
